---- MODULE Spec2Model ----
(***************************************************************************)
(* A model of the scalar autograd engine (class Value) and of the GPT      *)
(* training and inference loops built on it.                               *)
(*                                                                         *)
(* Numbers: every float the model computes with is a small integer, and    *)
(* IEEE-754 doubles are exact on integers below 2^53, so the integer       *)
(* arithmetic below is the arithmetic the engine performs on these inputs. *)
(* log, exp and div (pow(-1)) leave the integers and are not called by the *)
(* client of SpecValue; pow is called with a positive integer exponent.    *)
(***************************************************************************)
EXTENDS Integers, Sequences, FiniteSets, TLC

VARIABLES
    heap,       \* the Value objects alive, by identity
    nops,       \* SpecValue: number of operator methods called so far
    nback,      \* SpecValue: number of backward() calls made so far
    docs,       \* the training documents, in their shuffled order
    pc,         \* the place the program is at
    step,       \* the training loop's step
    pos,        \* the inner loops' pos
    tokens,     \* the tokens of the step's document
    kvKeys,     \* keys[li]: the key vectors cached for layer li
    kvValues,   \* values[li]: the value vectors cached for layer li
    losses,     \* the per-position losses of the step
    loss,       \* the step's loss node (0: none)
    mAdam,      \* m: Adam's first moments
    vAdam,      \* v: Adam's second moments
    pidx,       \* the Adam loop's i
    smp,        \* the inference loop's s
    tokenId,    \* the inference loop's tokenId
    sample,     \* the inference loop's sample
    cur,        \* what gpt returned and cached so far in the sample being generated
    prev,       \* the same for the sample generated before it
    mark,       \* the greatest identity alive when the current sequence began
    lrT,        \* the Adam step's lrT, a fraction <<numerator, denominator>>
    corr1,      \* the divisor of mHat, `1 - BETA1 ** (step + 1)`, a fraction
    corr2,      \* the divisor of vHat, `1 - BETA2 ** (step + 1)`, a fraction
    call,       \* SpecCalls: the function called and its arguments
    ret,        \* SpecCalls, SpecBeads: what the call or command returned
    issues,     \* SpecBeads: the issues of .beads/issues.jsonl, in file order
    messages,   \* SpecAgent: the history of the turn (conversationHistory)
    sessions,   \* SpecAgent: the session files, path -> lines
    iter,       \* SpecAgent: i of the agent loop
    response,   \* SpecAgent: the last response of the model API
    blk,        \* SpecAgent: the block of response.content being handled
    toolResults, \* SpecAgent: the tool results of this pass
    apiCalls,   \* SpecAgent: the calls of client.messages.create of this turn
    approvals,  \* SpecAgent: exec-approvals.json
    event,      \* SpecAgent: what became of the last tool call
    answeredYes, \* SpecAgent: the commands the user has answered y to
    ticks,      \* SpecHeartbeat: the instants at which the interval timer fired
    tz,         \* SpecHeartbeat: local time minus UTC, in minutes
    lastHeartbeatDate, \* SpecHeartbeat: lastHeartbeatDate of setupHeartbeats
    repl,       \* SpecHeartbeat: where main is
    userTurn,   \* SpecHeartbeat: the turn main awaits
    cronTurns,  \* SpecHeartbeat: the turns the heartbeat started
    starts,     \* SpecHeartbeat: the instants at which they started
    replSessionKey, \* SpecRepl: sessionKey of main
    clock       \* SpecRepl: the time, in half seconds

valueVars == <<nops, nback>>
trainVars == <<docs, pc, step, pos, tokens, kvKeys, kvValues, losses, loss, mAdam, vAdam,
               pidx, smp, tokenId, sample, cur, prev, mark, lrT, corr1, corr2>>
callVars == <<call, ret>>
agentVars == <<messages, sessions, iter, response, blk, toolResults,
               apiCalls, approvals, event, answeredYes>>
beatVars == <<ticks, tz, lastHeartbeatDate, repl, userTurn, cronTurns,
              starts>>
replVars == <<replSessionKey, clock>>
vars == <<heap, valueVars, trainVars, callVars, issues, agentVars, beatVars, replVars>>

\* No agent turn is running.
agentOff ==
    /\ messages = <<>> /\ sessions = <<>> /\ iter = 0 /\ response = <<>>
    /\ blk = 0 /\ toolResults = <<>> /\ apiCalls = <<>> /\ approvals = <<>>
    /\ event = <<>> /\ answeredYes = {}

\* No REPL is running.
beatOff ==
    /\ ticks = <<>> /\ tz = 0 /\ lastHeartbeatDate = 0 /\ repl = ""
    /\ userTurn = <<>> /\ cronTurns = <<>> /\ starts = <<>>

\* No REPL with sessions is running.
replOff == replSessionKey = <<>> /\ clock = 0

(***************************************************************************)
(* Bounds of the model.                                                    *)
(***************************************************************************)
MaxLeaves == 2
MaxOps == 2
MaxBackward == 2

\* data a caller passes to `new Value(x)` for a leaf
LeafData == {-1, 2}
\* numeric constants a caller passes where a `Value | number` is taken
NumData == {0}
\* exponents a caller passes to pow
PowExp == {2}

(***************************************************************************)
(* Sequence helpers.                                                       *)
(***************************************************************************)
Range(s) == {s[i] : i \in 1..Len(s)}

\* x ** n for an integer n >= 0
RECURSIVE Power(_, _)
Power(x, n) == IF n <= 0 THEN 1 ELSE x * Power(x, n - 1)

(***************************************************************************)
(* Fractions <<numerator, denominator>> with a positive denominator: the   *)
(* exact values of the optimizer's schedule, which the program computes in *)
(* doubles.  They are kept in lowest terms.                                *)
(***************************************************************************)
One == <<1, 1>>
RECURSIVE gcd(_, _)
gcd(a, b) == IF b = 0 THEN a ELSE gcd(b, a % b)
\* the fraction in lowest terms
norm(f) ==
    LET g == gcd(IF f[1] < 0 THEN -f[1] ELSE f[1], f[2])
    IN  <<f[1] \div g, f[2] \div g>>
fracMul(a, b) == norm(<<a[1] * b[1], a[2] * b[2]>>)
fracAdd(a, b) == norm(<<a[1] * b[2] + b[1] * a[2], a[2] * b[2]>>)
fracSub(a, b) == norm(<<a[1] * b[2] - b[1] * a[2], a[2] * b[2]>>)
fracPow(a, n) == norm(<<Power(a[1], n), Power(a[2], n)>>)
fracEq(a, b) == norm(a) = norm(b)
fracLess(a, b) == a[1] * b[2] < b[1] * a[2]

(***************************************************************************)
(* class Value.  A node is [data, grad, children, localGrads]; `op` names  *)
(* the method that constructed it (it is not a field of the class).        *)
(***************************************************************************)
Value(data, children, localGrads, op) ==
    [data |-> data, grad |-> 0, children |-> children,
     localGrads |-> localGrads, op |-> op]

\* `other instanceof Value ? other : new Value(other)`: a numeric operand is
\* wrapped in a fresh leaf.  isNum says the caller passed a number.
coerce(h, other, isNum) ==
    IF isNum THEN Append(h, Value(other, <<>>, <<>>, "const")) ELSE h
coerced(h, other, isNum) == IF isNum THEN Len(h) + 1 ELSE other

\* add as it would be with the second local gradient forgotten
addOneGrad(h, this, other, isNum) ==
    LET h1 == coerce(h, other, isNum)
        o  == coerced(h, other, isNum)
    IN  Append(h1, Value(h1[this].data + h1[o].data, <<this, o>>, <<1>>, "add"))

add(h, this, other, isNum) ==
    LET h1 == coerce(h, other, isNum)
        o  == coerced(h, other, isNum)
    IN  Append(h1, Value(h1[this].data + h1[o].data, <<this, o>>, <<1, 1>>, "add"))

\* mul as it would be with the two local gradients in the wrong order
mulSwapped(h, this, other, isNum) ==
    LET h1 == coerce(h, other, isNum)
        o  == coerced(h, other, isNum)
    IN  Append(h1, Value(h1[this].data * h1[o].data, <<this, o>>,
                         <<h1[this].data, h1[o].data>>, "mul"))

mul(h, this, other, isNum) ==
    LET h1 == coerce(h, other, isNum)
        o  == coerced(h, other, isNum)
    IN  Append(h1, Value(h1[this].data * h1[o].data, <<this, o>>,
                         <<h1[o].data, h1[this].data>>, "mul"))

pow(h, this, n) ==
    Append(h, Value(Power(h[this].data, n), <<this>>,
                    <<n * Power(h[this].data, n - 1)>>, "pow"))

relu(h, this) ==
    Append(h, Value(IF h[this].data > 0 THEN h[this].data ELSE 0, <<this>>,
                    <<IF h[this].data > 0 THEN 1 ELSE 0>>, "relu"))

neg(h, this) == mul(h, this, -1, TRUE)

sub(h, this, other, isNum) ==
    LET h1 == coerce(h, other, isNum)
        o  == coerced(h, other, isNum)
        h2 == neg(h1, o)
    IN  add(h2, this, Len(h2), FALSE)

(***************************************************************************)
(* Value.backward                                                          *)
(***************************************************************************)
\* In the loops below one iteration runs on the state the iteration before
\* it left: `CHOOSE r \in {F(x) : x \in {e}} : TRUE` is F applied to the
\* value of e.

RECURSIVE buildTopo(_, _, _)
RECURSIVE buildTopoChildren(_, _, _, _)
RECURSIVE buildTopoNoVisited(_, _, _)
RECURSIVE buildTopoChildrenNoVisited(_, _, _, _)

\* buildTopo as it would be without the visited set
buildTopoNoVisited(h, v, st) ==
    LET st2 == buildTopoChildrenNoVisited(h, h[v].children, 1, st)
    IN  [st2 EXCEPT !.topo = Append(@, v)]

buildTopoChildrenNoVisited(h, cs, j, st) ==
    IF j > Len(cs) THEN st
    ELSE buildTopoChildrenNoVisited(h, cs, j + 1, buildTopoNoVisited(h, cs[j], st))

\* st = [topo, visited]; the post-order depth-first walk of backward()
buildTopo(h, v, st) ==
    IF v \in st.visited THEN st
    ELSE LET st1 == [st EXCEPT !.visited = @ \cup {v}]
             st2 == buildTopoChildren(h, h[v].children, 1, st1)
         IN  [st2 EXCEPT !.topo = Append(@, v)]

\* `for (const child of v.children) buildTopo(child)`
buildTopoChildren(h, cs, j, st) ==
    IF j > Len(cs) THEN st
    ELSE CHOOSE r \in {buildTopoChildren(h, cs, j + 1, st1) :
                       st1 \in {buildTopo(h, cs[j], st)}} : TRUE

topoOf(h, root) == buildTopo(h, root, [topo |-> <<>>, visited |-> {}]).topo

\* the chain-rule step as it would be with `=` for `+=`
accumulateOverwrite(h, v, j) ==
    [h EXCEPT ![h[v].children[j]].grad = h[v].localGrads[j] * h[v].grad]

\* `v.children[j].grad += v.localGrads[j] * v.grad`
accumulate(h, v, j) ==
    [h EXCEPT ![h[v].children[j]].grad = @ + h[v].localGrads[j] * h[v].grad]

RECURSIVE propagateChildren(_, _, _)
propagateChildren(h, v, j) ==
    IF j > Len(h[v].children) THEN h
    ELSE CHOOSE r \in {propagateChildren(h1, v, j + 1) : h1 \in {accumulate(h, v, j)}} : TRUE

\* the walk as it would be in topological (not reverse) order
RECURSIVE propagateForward(_, _, _)
propagateForward(h, topo, i) ==
    IF i < 1 THEN h
    ELSE propagateChildren(propagateForward(h, topo, i - 1), topo[i], 1)

\* the iterations lo..hi of the loop below in descending order: first the
\* upper half of them, then the lower half on the heap the upper half left
RECURSIVE propagateRange(_, _, _, _)
propagateRange(h, topo, lo, hi) ==
    IF lo > hi THEN h
    ELSE IF lo = hi THEN propagateChildren(h, topo[lo], 1)
    ELSE LET mid == (lo + hi) \div 2
         IN  CHOOSE r \in {propagateRange(h1, topo, lo, mid) :
                            h1 \in {propagateRange(h, topo, mid + 1, hi)}} : TRUE

\* `for (let i = topo.length - 1; i >= 0; i--)`, from topo[i] down
propagate(h, topo, i) == propagateRange(h, topo, 1, i)

\* the seed as it would be with `+=` for `=`
seedAdd(h, root) == [h EXCEPT ![root].grad = @ + 1]

\* `this.grad = 1`
seed(h, root) == [h EXCEPT ![root].grad = 1]

backward(h, root) ==
    LET topo == topoOf(h, root)
    IN  propagate(seed(h, root), topo, Len(topo))

(***************************************************************************)
(* The GPT program.  Its Value objects live in the same heap.  The model   *)
(* keeps one node per parameter and one node per block of vectors gpt      *)
(* computes: the embedding x, each layer's q, k and v, each head's slice   *)
(* of xAttn, the x after the attention block, the x after the MLP block    *)
(* and the logits.  A node's children are the blocks and the parameters    *)
(* its scalars are computed from, so a scalar reaches only what its        *)
(* block's node reaches.  The floats are not computed: an activation's     *)
(* data is 0, a parameter's data counts the Adam updates that may have     *)
(* changed it, and every local gradient is 1, so that a grad is 0 unless   *)
(* a backward() has added into it since it was last 0.                     *)
(***************************************************************************)
\* the nodes reachable from the set S through child edges
RECURSIVE Closure(_, _)
Closure(h, S) ==
    LET T == S \cup UNION {Range(h[n].children) : n \in S}
    IN  IF T = S THEN S ELSE Closure(h, T)

\* the objects the garbage collector keeps: those the roots reach
collect(h, roots) == [i \in Closure(h, roots) |-> h[i]]

MaxId(h) ==
    LET D == DOMAIN h
    IN  IF D = {} THEN 0 ELSE CHOOSE i \in D : (i + 1) \notin D /\ \A j \in D : j <= i

\* `new Value(...)`: the new object gets the next identity
alloc(h, node) == h @@ ((MaxId(h) + 1) :> node)

\* a node computed from `children` by the code named `op`
VNode(children, op) == Value(0, children, [j \in 1..Len(children) |-> 1], op)

\* the flattening as it would be if it took the first entry of each row
FlatFirst(mat) == [i \in 1..Len(mat) |-> mat[i][1]]

\* `mat.flatMap((row) => row)` of a matrix of nin columns
Flat(mat) ==
    LET nin == Len(mat[1])
    IN  [i \in 1..(Len(mat) * nin) |-> mat[((i - 1) \div nin) + 1][((i - 1) % nin) + 1]]

RECURSIVE Sorted(_)
\* `.sort()` of a set of characters
Sorted(S) ==
    IF S = {} THEN <<>>
    ELSE LET lo == CHOOSE x \in S : \A y \in S : x <= y
         IN  <<lo>> \o Sorted(S \ {lo})

Min(a, b) == IF a <= b THEN a ELSE b

\* Tokenizer
uchars == Sorted(UNION {Range(docs[i]) : i \in 1..Len(docs)})
BOS == Len(uchars)
\* the vocabulary as it would be without the extra id for BOS
vocabSizeNoBos == Len(uchars)
vocabSize == Len(uchars) + 1
\* `uchars.indexOf(ch)`
indexOf(ch) == (CHOOSE i \in 1..Len(uchars) : uchars[i] = ch) - 1
\* `[BOS, ...doc.split("").map((ch) => uchars.indexOf(ch)), BOS]`
tokenize(doc) == <<BOS>> \o [i \in 1..Len(doc) |-> indexOf(doc[i])] \o <<BOS>>

\* Model hyperparameters.  N_LAYER is the source's; N_EMBD, BLOCK_SIZE and
\* N_HEAD (16, 16 and 4 in the source), NUM_STEPS (1000) and the number of
\* inference samples (20) are scaled down.
N_LAYER == 1
N_EMBD == 1
BLOCK_SIZE == 3
N_HEAD == 1
NUM_STEPS == 2
NUM_SAMPLES == 2

\* the matrices of stateDict in insertion order, and their shapes
LayerMats == <<".attn_wq", ".attn_wk", ".attn_wv", ".attn_wo", ".mlp_fc1", ".mlp_fc2">>
RECURSIVE LayerNames(_)
LayerNames(li) ==
    IF li > N_LAYER THEN <<>>
    ELSE [k \in 1..Len(LayerMats) |-> "layer" \o ToString(li - 1) \o LayerMats[k]]
         \o LayerNames(li + 1)
MatNames == <<"wte", "wpe", "lm_head">> \o LayerNames(1)

Shape(k) ==
    IF k \in {1, 3} THEN [nout |-> vocabSize, nin |-> N_EMBD]
    ELSE IF k = 2 THEN [nout |-> BLOCK_SIZE, nin |-> N_EMBD]
    ELSE IF (k - 4) % Len(LayerMats) = 4 THEN [nout |-> 4 * N_EMBD, nin |-> N_EMBD]
    ELSE IF (k - 4) % Len(LayerMats) = 5 THEN [nout |-> N_EMBD, nin |-> 4 * N_EMBD]
    ELSE [nout |-> N_EMBD, nin |-> N_EMBD]

\* the number of Value objects matrix() created before matrix k: the three
\* matrices outside the layers, the whole layers before k's, and the
\* matrices of k's layer before k
Offset(k) ==
    IF k <= 1 THEN 0
    ELSE IF k = 2 THEN vocabSize * N_EMBD
    ELSE IF k = 3 THEN (vocabSize + BLOCK_SIZE) * N_EMBD
    ELSE LET r == (k - 4) % Len(LayerMats)
         IN  (2 * vocabSize + BLOCK_SIZE) * N_EMBD
             + ((k - 4) \div Len(LayerMats)) * 12 * N_EMBD * N_EMBD
             + (IF r <= 4 THEN r * N_EMBD * N_EMBD ELSE 8 * N_EMBD * N_EMBD)

\* `matrix(nout, nin)`: nout rows of nin new Values, created row by row
matrix(k) ==
    [i \in 1..Shape(k).nout |->
        [j \in 1..Shape(k).nin |-> Offset(k) + (i - 1) * Shape(k).nin + j]]

stateDict(name) == matrix(CHOOSE k \in 1..Len(MatNames) : MatNames[k] = name)
layerMat(li, mat) == stateDict("layer" \o ToString(li - 1) \o mat)

\* `Object.values(stateDict).flatMap((mat) => mat.flatMap((row) => row))`:
\* the matrices in insertion order, so the objects in creation order
params == [i \in 1..Offset(Len(MatNames) + 1) |-> i]

\* the same list computed as the code computes it: the matrices of stateDict
\* in insertion order, each flattened row by row
RECURSIVE flatMapFrom(_)
flatMapFrom(k) ==
    IF k > Len(MatNames) THEN <<>> ELSE Flat(matrix(k)) \o flatMapFrom(k + 1)

\* the heap after parameter initialisation
initialHeap == [i \in 1..Len(params) |-> Value(0, <<>>, <<>>, "leaf")]

\* the caches as they would be if they were allocated once, before the
\* training loop, and not once per sequence
allocKvHoisted ==
    IF pc = "train" /\ step = 0 THEN [li \in 1..N_LAYER |-> <<>>] ELSE kvKeys

\* `Array.from({ length: N_LAYER }, () => [])`
allocKv == [li \in 1..N_LAYER |-> <<>>]

\* push as it would be if it replaced the cached entries
pushReplace(cache, li, k) == [cache EXCEPT ![li] = <<k>>]

\* push as it would be if it added the entry at the front (unshift)
pushFront(cache, li, k) == [cache EXCEPT ![li] = <<k>> \o @]

\* `keys[li].push(k)`
push(cache, li, k) == [cache EXCEPT ![li] = Append(@, k)]

\* the Value objects are created in program order, so the c-th vector a
\* call computes has identity base + c, base being the greatest identity
\* alive when the call begins.  One layer computes PerLayer vectors: q, k,
\* v, one slice of xAttn per head, the attention block's x and the MLP
\* block's x.
PerLayer == 5 + N_HEAD
\* the identity of the x a layer starts from
xIn(base, li) == base + 1 + (li - 1) * PerLayer
\* k and v are the second and the third vector a layer computes
kOf == 2
vOf == 3

RECURSIVE pushAll(_, _, _, _)
\* the caches after every layer's push of its vector number c
pushAll(cache, base, li, c) ==
    IF li > N_LAYER THEN cache
    ELSE pushAll(push(cache, li, xIn(base, li) + c), base, li + 1, c)

\* the body of `for (let li = 0; li < N_LAYER; li++)`, keys and values
\* being the caches after the pushes
layer(base, li, keys, values) ==
    LET xResidual1 == xIn(base, li)
        q  == xResidual1 + 1
        xAttn == [hd \in 1..N_HEAD |-> xResidual1 + 3 + hd]
        xResidual2 == xResidual1 + 4 + N_HEAD
    IN  <<VNode(<<xResidual1>> \o Flat(layerMat(li, ".attn_wq")), "q"),
          VNode(<<xResidual1>> \o Flat(layerMat(li, ".attn_wk")), "k"),
          VNode(<<xResidual1>> \o Flat(layerMat(li, ".attn_wv")), "v")>>
        \o [hd \in 1..N_HEAD |->
              VNode(<<q>> \o keys[li] \o values[li], "attn_head" \o ToString(hd - 1))]
        \o <<VNode(xAttn \o <<xResidual1>> \o Flat(layerMat(li, ".attn_wo")), "attn_block"),
             VNode(<<xResidual2>> \o Flat(layerMat(li, ".mlp_fc1"))
                   \o Flat(layerMat(li, ".mlp_fc2")), "mlp_block")>>

RECURSIVE layers(_, _, _, _)
layers(base, li, keys, values) ==
    IF li > N_LAYER THEN <<>>
    ELSE layer(base, li, keys, values) \o layers(base, li + 1, keys, values)

\* the forward pass as it would be if constructing a node added to the grad
\* of the node's children
allocAllEager(h, base, created) ==
    LET touched == UNION {Range(created[i].children) : i \in 1..Len(created)}
    IN  [k \in DOMAIN h |-> IF k \in touched THEN [h[k] EXCEPT !.grad = @ + 1] ELSE h[k]]
        @@ [i \in (base + 1)..(base + Len(created)) |-> created[i - base]]

\* the objects `created` join the heap with the identities base + 1, ...
allocAll(h, base, created) ==
    h @@ [i \in (base + 1)..(base + Len(created)) |-> created[i - base]]

\* gpt(tokenId, posId, keys, values): [h, keys, values, logits]
gpt(h, tokId, posId, keys, values) ==
    LET base == MaxId(h)
        tokEmb == stateDict("wte")[tokId + 1]
        posEmb == stateDict("wpe")[posId + 1]
        keys1   == pushAll(keys, base, 1, kOf)
        values1 == pushAll(values, base, 1, vOf)
        created == <<VNode(tokEmb \o posEmb, "embed")>>
                   \o layers(base, 1, keys1, values1)
                   \o <<VNode(<<xIn(base, N_LAYER + 1)>> \o Flat(stateDict("lm_head")),
                              "lm_head")>>
    IN  [h |-> allocAll(h, base, created), keys |-> keys1, values |-> values1,
         logits |-> base + Len(created)]

\* the computation that produced node n: the operation, data and children
\* of every node n is computed from, parameters included
Term(h, n) ==
    [root |-> n,
     nodes |-> [k \in Closure(h, {n}) |->
                  [op |-> h[k].op, data |-> h[k].data, children |-> h[k].children]]]

\* `const LEARNING_RATE = 0.01`, `const BETA1 = 0.85`, `const BETA2 = 0.99`
LEARNING_RATE == <<1, 100>>
BETA1 == <<85, 100>>
BETA2 == <<99, 100>>

\* a schedule that counts the steps from 1, as the bias correction does
learningRateOneIndexed(st) == fracMul(LEARNING_RATE, fracSub(One, <<st + 1, NUM_STEPS>>))

\* `LEARNING_RATE * (1 - step / NUM_STEPS)`
learningRate(st) == fracMul(LEARNING_RATE, fracSub(One, <<st, NUM_STEPS>>))

\* a bias correction that counts the steps from 0, as the schedule does
biasCorrectionZeroBased(beta, st) == fracSub(One, fracPow(beta, st))

\* `1 - BETA ** (step + 1)`
biasCorrection(beta, st) == fracSub(One, fracPow(beta, st + 1))

\* Adam on the signs of the numbers: 0 is exactly zero, 1 is any other value
Sign(x) == IF x = 0 THEN 0 ELSE 1
\* the moment as it would be if its previous value were dropped
momentNoHistory(mi, g) == Sign(g)

\* `BETA * m[i] + (1 - BETA) * g`
moment(mi, g) == IF mi = 0 /\ g = 0 THEN 0 ELSE 1
\* the update as it would be if the step did not depend on the moment
updateAlways(h, p, mi) == [h EXCEPT ![p].data = @ + 1]
\* `p.data -= (lrT * mHat) / (Math.sqrt(vHat) + EPS)`: the data changes when mHat is not 0
update(h, p, mi) == [h EXCEPT ![p].data = @ + mi]
\* the Adam loop as it would be without its last statement
zeroGradSkip(h, p) == h

\* the Adam loop as it would be if it cleared every gradient at once
zeroGradAll(h, p) ==
    [k \in 1..Len(h) |-> IF k \in Range(params) THEN [h[k] EXCEPT !.grad = 0]
                         ELSE h[k]]

\* `p.grad = 0`
zeroGrad(h, p) == [h EXCEPT ![p].grad = 0]

(***************************************************************************)
(* SpecValue: a client of class Value.  It starts from up to MaxLeaves     *)
(* leaves (`new Value(x)`, as matrix() creates the parameters) and then    *)
(* calls the operator methods and backward() in any order.                 *)
(***************************************************************************)
Nodes == 1..Len(heap)
Leaves == {i \in Nodes : heap[i].op = "leaf"}
CallOp == nops < MaxOps /\ nops' = nops + 1 /\ UNCHANGED <<nback, trainVars, callVars, issues, agentVars, beatVars, replVars>>
NumArgs == [isNum : {TRUE}, other : NumData]
NodeArgs == [isNum : {FALSE}, other : Nodes]
Operand == NumArgs \cup NodeArgs

Add(a, o) ==
    /\ CallOp
    /\ heap' = add(heap, a, o.other, o.isNum)

Mul(a, o) ==
    /\ CallOp
    /\ heap' = mul(heap, a, o.other, o.isNum)

Pow(a, n) ==
    /\ CallOp
    /\ heap' = pow(heap, a, n)

Relu(a) ==
    /\ CallOp
    /\ heap' = relu(heap, a)

Neg(a) ==
    /\ CallOp
    /\ heap' = neg(heap, a)

Sub(a, o) ==
    /\ CallOp
    /\ heap' = sub(heap, a, o.other, o.isNum)

Backward(r) ==
    /\ nback < MaxBackward
    /\ heap' = backward(heap, r)
    /\ nback' = nback + 1
    /\ UNCHANGED <<nops, trainVars, callVars, issues, agentVars, beatVars, replVars>>

InitValue ==
    /\ \E n \in 1..MaxLeaves : heap \in [1..n -> {Value(d, <<>>, <<>>, "leaf") : d \in LeafData}]
    /\ nops = 0
    /\ nback = 0
    /\ docs = <<>> /\ pc = "value"
    /\ step = 0 /\ pos = 0 /\ pidx = 0 /\ smp = 0
    /\ tokens = <<>> /\ losses = <<>> /\ loss = 0
    /\ kvKeys = <<>> /\ kvValues = <<>>
    /\ mAdam = <<>> /\ vAdam = <<>>
    /\ tokenId = 0 /\ sample = <<>>
    /\ cur = <<>> /\ prev = <<>>
    /\ mark = 0
    /\ lrT = <<0, 1>> /\ corr1 = <<0, 1>> /\ corr2 = <<0, 1>>
    /\ call = <<>> /\ ret = <<>>
    /\ issues = <<>> /\ agentOff /\ beatOff /\ replOff

NextValue ==
    \/ \E a \in Nodes, o \in Operand : Add(a, o)
    \/ \E a \in Nodes, o \in Operand : Mul(a, o)
    \/ \E a \in Nodes, n \in PowExp : Pow(a, n)
    \/ \E a \in Nodes : Relu(a)
    \/ \E a \in Nodes : Neg(a)
    \/ \E a \in Nodes, o \in Operand : Sub(a, o)
    \/ \E r \in Nodes : Backward(r)

SpecValue == InitValue /\ [][NextValue]_vars

(***************************************************************************)
(* SpecTrain: the program of the file, from parameter initialisation       *)
(* through the training loop to the inference loop.  pc names the place    *)
(* the program is at.                                                      *)
(***************************************************************************)
\* the documents of input.txt, as sequences of character codes
DocSet == {<<1>>, <<1, 2>>, <<2, 1, 1>>}
MaxDocs == 2
DocLists == UNION {[1..k -> DocSet] : k \in 1..MaxDocs}

\* n as it would be if the final BOS were not counted among the tokens
nPosShort == Min(BLOCK_SIZE, Len(tokens) - 2)

\* `const n = Math.min(BLOCK_SIZE, tokens.length - 1)`
nPos == Min(BLOCK_SIZE, Len(tokens) - 1)

\* the Value objects the program's variables refer to
cacheIds(cache) == UNION {Range(cache[li]) : li \in DOMAIN cache}
roots(keys, values, ls, l) ==
    Range(params) \cup cacheIds(keys) \cup cacheIds(values) \cup Range(ls)
    \cup (IF l = 0 THEN {} ELSE {l})

emptyLog == [tokens |-> <<>>, logits |-> <<>>, keys |-> <<>>, values |-> <<>>]
cacheTerms(h, cache) ==
    [li \in DOMAIN cache |-> [t \in 1..Len(cache[li]) |-> Term(h, cache[li][t])]]

\* top of `for (let step = 0; step < NUM_STEPS; step++)`: tokenize, new caches
BeginStep ==
    /\ pc = "train" /\ step < NUM_STEPS
    /\ tokens' = tokenize(docs[(step % Len(docs)) + 1])
    /\ kvKeys' = allocKv
    /\ kvValues' = allocKv
    /\ losses' = <<>>
    /\ loss' = 0
    /\ pos' = 0
    /\ heap' = collect(heap, roots(kvKeys', kvValues', losses', loss'))
    /\ mark' = MaxId(heap')
    /\ pc' = "forward"
    /\ UNCHANGED <<docs, step, mAdam, vAdam, pidx, smp, tokenId, sample, cur, prev, nops, nback,
                   lrT, corr1, corr2, callVars, issues, agentVars, beatVars, replVars>>

\* one iteration of `for (let pos = 0; pos < n; pos++)`
Forward ==
    /\ pc = "forward" /\ pos < nPos
    /\ LET r     == gpt(heap, tokens[pos + 1], pos, kvKeys, kvValues)
           lossT == r.logits + 1
       IN  /\ heap' = allocAll(r.h, r.logits,
                               <<VNode(<<r.logits>>, "nll" \o ToString(tokens[pos + 2]))>>)
           /\ kvKeys' = r.keys
           /\ kvValues' = r.values
           /\ losses' = Append(losses, lossT)
    /\ pos' = pos + 1
    /\ UNCHANGED <<docs, pc, step, tokens, loss, mAdam, vAdam, pidx, smp, tokenId, sample,
                   cur, prev, mark, nops, nback,
                   lrT, corr1, corr2, callVars, issues, agentVars, beatVars, replVars>>

\* `const loss = losses.reduce((sum, l) => sum.add(l), new Value(0)).div(n)`
MeanLoss ==
    /\ pc = "forward" /\ pos >= nPos
    /\ heap' = alloc(heap, VNode(losses, "mean"))
    /\ loss' = MaxId(heap')
    /\ pc' = "backward"
    /\ UNCHANGED <<docs, step, pos, tokens, kvKeys, kvValues, losses, mAdam, vAdam, pidx, smp,
                   tokenId, sample, cur, prev, mark, nops, nback,
                   lrT, corr1, corr2, callVars, issues, agentVars, beatVars, replVars>>

\* `loss.backward()` and `const lrT = ...`
BackwardLoss ==
    /\ pc = "backward"
    /\ heap' = backward(heap, loss)
    /\ lrT' = learningRate(step)
    /\ pidx' = 0
    /\ pc' = "adam"
    /\ UNCHANGED <<docs, step, pos, tokens, kvKeys, kvValues, losses, loss, mAdam, vAdam, smp,
                   tokenId, sample, cur, prev, mark, nops, nback,
                   corr1, corr2, callVars, issues, agentVars, beatVars, replVars>>

\* one iteration of `for (let i = 0; i < params.length; i++)`
AdamParam ==
    /\ pc = "adam" /\ pidx < Len(params)
    /\ LET i  == pidx + 1
           p  == params[i]
           m1 == moment(mAdam[i], Sign(heap[p].grad))
           v1 == moment(vAdam[i], Sign(heap[p].grad))
       IN  /\ mAdam' = [mAdam EXCEPT ![i] = m1]
           /\ vAdam' = [vAdam EXCEPT ![i] = v1]
           /\ corr1' = biasCorrection(BETA1, step)
           /\ corr2' = biasCorrection(BETA2, step)
           /\ heap' = zeroGrad(update(heap, p, m1), p)
    /\ pidx' = pidx + 1
    /\ UNCHANGED <<docs, pc, step, pos, tokens, kvKeys, kvValues, losses, loss, smp,
                   tokenId, sample, cur, prev, mark, nops, nback,
                   lrT, callVars, issues, agentVars, beatVars, replVars>>

\* the end of the loop body: step++
EndStep ==
    /\ pc = "adam" /\ pidx >= Len(params)
    /\ step' = step + 1
    /\ pc' = "train"
    /\ UNCHANGED <<heap, docs, pos, tokens, kvKeys, kvValues, losses, loss, mAdam, vAdam, pidx,
                   smp, tokenId, sample, cur, prev, mark, nops, nback,
                   lrT, corr1, corr2, callVars, issues, agentVars, beatVars, replVars>>

\* the training loop ends; its block-scoped variables are gone
EndTraining ==
    /\ pc = "train" /\ step >= NUM_STEPS
    /\ tokens' = <<>> /\ losses' = <<>> /\ loss' = 0
    /\ smp' = 0
    /\ pc' = "infer"
    /\ UNCHANGED <<heap, docs, step, pos, kvKeys, kvValues, mAdam, vAdam, pidx, tokenId,
                   sample, cur, prev, mark, nops, nback,
                   lrT, corr1, corr2, callVars, issues, agentVars, beatVars, replVars>>

\* top of `for (let s = 0; s < 20; s++)`: new caches, tokenId = BOS
BeginSample ==
    /\ pc = "infer" /\ smp < NUM_SAMPLES
    /\ kvKeys' = allocKv
    /\ kvValues' = allocKv
    /\ tokenId' = BOS
    /\ sample' = <<>>
    /\ pos' = 0
    /\ prev' = cur
    /\ cur' = emptyLog
    /\ heap' = collect(heap, roots(kvKeys', kvValues', <<>>, 0))
    /\ mark' = MaxId(heap')
    /\ pc' = "gen"
    /\ UNCHANGED <<docs, step, tokens, losses, loss, mAdam, vAdam, pidx, smp, nops, nback,
                   lrT, corr1, corr2, callVars, issues, agentVars, beatVars, replVars>>

\* what indexing an array past its end gives
undefined == 0
\* `uchars[tokenId]`
charAt(tok) == IF tok + 1 \in 1..Len(uchars) THEN uchars[tok + 1] ELSE undefined

\* the body as it would be with the push before the test for BOS
pushedBeforeBreak(smpl, tok) == Append(smpl, charAt(tok))

\* `if (tokenId === BOS) break; sample.push(uchars[tokenId])`: the sample after it
pushed(smpl, tok) == IF tok = BOS THEN smpl ELSE Append(smpl, charAt(tok))

\* the inner loop as it would be without its `pos++`
posStuck(p) == p

\* `pos++` of `for (let pos = 0; pos < BLOCK_SIZE; pos++)`
posNext(p) == p + 1

\* one iteration of `for (let pos = 0; pos < BLOCK_SIZE; pos++)`; tok is the
\* index weightedChoice returns
Generate(tok) ==
    /\ pc = "gen" /\ pos < BLOCK_SIZE
    /\ LET r == gpt(heap, tokenId, pos, kvKeys, kvValues)
       IN  /\ heap' = allocAll(r.h, r.logits, <<VNode(<<r.logits>>, "probs")>>)
           /\ kvKeys' = r.keys
           /\ kvValues' = r.values
           /\ cur' = [tokens |-> Append(cur.tokens, tokenId),
                      logits |-> Append(cur.logits, Term(r.h, r.logits)),
                      keys   |-> cacheTerms(r.h, r.keys),
                      values |-> cacheTerms(r.h, r.values)]
    /\ tokenId' = tok
    /\ sample' = pushed(sample, tok)
    /\ IF tok = BOS
       THEN /\ smp' = smp + 1
            /\ pc' = "infer"
            /\ UNCHANGED pos
       ELSE /\ pos' = posNext(pos)
            /\ UNCHANGED <<smp, pc>>
    /\ UNCHANGED <<docs, step, tokens, losses, loss, mAdam, vAdam, pidx, prev, mark, nops, nback,
                   lrT, corr1, corr2, callVars, issues, agentVars, beatVars, replVars>>

\* the inner loop ran BLOCK_SIZE times
EndSample ==
    /\ pc = "gen" /\ pos >= BLOCK_SIZE
    /\ smp' = smp + 1
    /\ pc' = "infer"
    /\ UNCHANGED <<heap, docs, step, pos, tokens, kvKeys, kvValues, losses, loss, mAdam, vAdam,
                   pidx, tokenId, sample, cur, prev, mark, nops, nback,
                   lrT, corr1, corr2, callVars, issues, agentVars, beatVars, replVars>>

Finish ==
    /\ pc = "infer" /\ smp >= NUM_SAMPLES
    /\ pc' = "done"
    /\ UNCHANGED <<heap, docs, step, pos, tokens, kvKeys, kvValues, losses, loss, mAdam, vAdam,
                   pidx, smp, tokenId, sample, cur, prev, mark, nops, nback,
                   lrT, corr1, corr2, callVars, issues, agentVars, beatVars, replVars>>

InitTrain ==
    /\ docs \in DocLists
    /\ heap = initialHeap
    /\ mAdam = [i \in 1..Len(params) |-> 0]
    /\ vAdam = [i \in 1..Len(params) |-> 0]
    /\ pc = "train"
    /\ step = 0 /\ pos = 0 /\ pidx = 0 /\ smp = 0
    /\ tokens = <<>> /\ losses = <<>> /\ loss = 0
    /\ kvKeys = <<>> /\ kvValues = <<>>
    /\ tokenId = 0 /\ sample = <<>>
    /\ cur = emptyLog /\ prev = emptyLog
    /\ mark = 0
    /\ lrT = <<0, 1>> /\ corr1 = <<0, 1>> /\ corr2 = <<0, 1>>
    /\ nops = 0 /\ nback = 0
    /\ call = <<>> /\ ret = <<>>
    /\ issues = <<>> /\ agentOff /\ beatOff /\ replOff

NextTrain ==
    \/ BeginStep
    \/ Forward
    \/ MeanLoss
    \/ BackwardLoss
    \/ AdamParam
    \/ EndStep
    \/ EndTraining
    \/ BeginSample
    \/ \E tok \in 0..(vocabSize - 1) : Generate(tok)
    \/ EndSample
    \/ Finish

SpecTrain == InitTrain /\ [][NextTrain]_vars

\* The program is one synchronous thread: until it has finished, it goes on
\* to its next statement.  ctl is the place it is at: pc and the loop
\* counters, which every statement run changes.
ctl == <<pc, step, pos, pidx, smp>>
Running ==
    /\ pc # "done"
    /\ pc' \in {"train", "forward", "backward", "adam", "infer", "gen", "done"}
    /\ step' \in 0..NUM_STEPS
    /\ pos' \in 0..BLOCK_SIZE
    /\ pidx' \in 0..Len(params)
    /\ smp' \in 0..NUM_SAMPLES
SpecTrainFair == SpecTrain /\ WF_ctl(Running)

(***************************************************************************)
(* SpecCalls: single calls of the program's helper functions, on arguments *)
(* drawn from small sets.  call is the function and its arguments, ret is  *)
(* <<>> until the call has returned and then says how it ended.            *)
(***************************************************************************)
MaxWeights == 3
MaxWeight == 2
RandSteps == 4
MaxEmbd == 4
MaxHead == 3
MaxRows == 2
MaxCols == 2

returned(v) == [kind |-> "returned", value |-> v]

\* `r <= 0` on fractions
fracLeqZero(a) == a[1] <= 0

\* `weights.reduce((a, b) => a + b, 0)`
RECURSIVE total(_)
total(weights) == IF weights = <<>> THEN 0 ELSE Head(weights) + total(Tail(weights))

\* the loop of weightedChoice from index i (0-based) on, with r as it is there
RECURSIVE weightedChoiceFrom(_, _, _)
weightedChoiceFrom(weights, r, i) ==
    IF i >= Len(weights) THEN Len(weights) - 1
    ELSE LET r1 == fracSub(r, <<weights[i + 1], 1>>)
         IN  IF fracLeqZero(r1) THEN i ELSE weightedChoiceFrom(weights, r1, i + 1)

\* weightedChoice(weights), with u what rand() returns
weightedChoice(weights, u) ==
    weightedChoiceFrom(weights, fracMul(u, <<total(weights), 1>>), 0)

\* `N_EMBD / N_HEAD`, a fraction
HEAD_DIM(nEmbd, nHead) == <<nEmbd, nHead>>
\* the integer a fractional index is converted to by Array.prototype.slice
trunc(f) == f[1] \div f[2]
\* the bounds, within an array of len entries, of `.slice(start, end)`
slice(len, start, end) == [from |-> Min(trunc(start), len), to |-> Min(trunc(end), len)]
\* the number of iterations of `for (let j = 0; j < HEAD_DIM; j++)`
headOutputs(hd) == (hd[1] + hd[2] - 1) \div hd[2]
\* the heads loop of gpt: for each head, the slice of q it reads and the
\* number of entries it pushes to xAttn
heads(nEmbd, nHead) ==
    LET hd == HEAD_DIM(nEmbd, nHead)
    IN  [h \in 1..nHead |->
            LET hs == fracMul(<<h - 1, 1>>, hd)
            IN  [qH |-> slice(nEmbd, hs, fracAdd(hs, hd)),
                 pushed |-> headOutputs(hd)]]

\* numbers: an integer, or NaN
Num(n) == [nan |-> FALSE, val |-> n]
NaN == [nan |-> TRUE, val |-> 0]
jsAdd(a, b) == IF a.nan \/ b.nan THEN NaN ELSE Num(a.val + b.val)
jsMul(a, b) == IF a.nan \/ b.nan THEN NaN ELSE Num(a.val * b.val)
\* the data of the operand `wi.mul(x[i])` multiplies by: past the end of x,
\* x[i] is undefined, mul wraps it in `new Value(undefined)`, and the product
\* of a number and undefined is NaN
operandData(x, i) == IF i \in 1..Len(x) THEN x[i] ELSE NaN
\* `wRow.reduce((sum, wi, i) => sum.add(wi.mul(x[i])), new Value(0))`, on the
\* data of the Values, from entry i of the row on
RECURSIVE rowReduce(_, _, _, _)
rowReduce(wRow, x, i, sum) ==
    IF i > Len(wRow) THEN sum
    ELSE rowReduce(wRow, x, i + 1, jsAdd(sum, jsMul(wRow[i], operandData(x, i))))
\* linear(x, w), on the data of the Values
linear(x, w) == [r \in 1..Len(w) |-> rowReduce(w[r], x, 1, Num(0))]

\* `v.exp()`, `sum.add(e)` and `e.div(total)` on the data of the Values: exp
\* and the quotient leave the integers and are kept as the terms they compute
exp(x) == [fn |-> "exp", of |-> x]
sumOf(es) == [fn |-> "sum", of |-> es]
div(e, t) == [fn |-> "div", num |-> e, den |-> t]
\* `Math.max(...logits.map((v) => v.data))`
maxOf(xs) == CHOOSE x \in Range(xs) : \A y \in Range(xs) : y <= x

\* softmax as it would be without the subtraction of the maximum
softmaxUnshifted(logits) ==
    LET exps  == [i \in 1..Len(logits) |-> exp(logits[i])]
        tot   == sumOf(exps)
    IN  [i \in 1..Len(logits) |-> div(exps[i], tot)]

\* softmax as it would be if the smallest logit were subtracted
softmaxMinShifted(logits) ==
    LET minVal == CHOOSE x \in Range(logits) : \A y \in Range(logits) : x <= y
        exps   == [i \in 1..Len(logits) |-> exp(logits[i] - minVal)]
        tot    == sumOf(exps)
    IN  [i \in 1..Len(logits) |-> div(exps[i], tot)]

\* softmax(logits), on the data of the Values
softmax(logits) ==
    LET maxVal == maxOf(logits)
        exps   == [i \in 1..Len(logits) |-> exp(logits[i] - maxVal)]
        tot    == sumOf(exps)
    IN  [i \in 1..Len(logits) |-> div(exps[i], tot)]

MaxLogits == 3
LogitData == {-1, 0, 2}
Shifts == {-3, 1, 2}
Logits == UNION {[1..n -> LogitData] : n \in 1..MaxLogits}

Weights == {w \in UNION {[1..n -> 0..MaxWeight] : n \in 1..MaxWeights} : total(w) > 0}
Rands == {<<k, RandSteps>> : k \in 0..(RandSteps - 1)}
EntryData == {Num(1), Num(2)}
Vectors == UNION {[1..n -> EntryData] : n \in 0..(MaxCols + 1)}
Matrices == UNION {[1..r -> [1..MaxCols -> {Num(1)}]] : r \in 1..MaxRows}

\* The lengths of the vectors of one call of gpt.
MaxVocab == 3

\* the shape of a matrix of stateDict as it would be if mlp_fc2 were square
matrixShapeSquare(name, nEmbd, vocab) ==
    IF name \in {"wte", "lm_head"} THEN [nout |-> vocab, nin |-> nEmbd]
    ELSE IF name = ".mlp_fc1" THEN [nout |-> 4 * nEmbd, nin |-> nEmbd]
    ELSE [nout |-> nEmbd, nin |-> nEmbd]

\* `matrix(nout, nin)` of each entry of stateDict
matrixShape(name, nEmbd, vocab) ==
    IF name \in {"wte", "lm_head"} THEN [nout |-> vocab, nin |-> nEmbd]
    ELSE IF name = ".mlp_fc1" THEN [nout |-> 4 * nEmbd, nin |-> nEmbd]
    ELSE IF name = ".mlp_fc2" THEN [nout |-> nEmbd, nin |-> 4 * nEmbd]
    ELSE [nout |-> nEmbd, nin |-> nEmbd]

\* linear(x, w) on lengths: w.map gives one entry per row of w; x and row
\* are the lengths the call was made with
linearLengths(xLen, shape) == [x |-> xLen, row |-> shape.nin, out |-> shape.nout]

\* `xAttn.push(...)` over the heads loop: the length of xAttn after it
RECURSIVE xAttnLength(_, _)
xAttnLength(hs, h) ==
    IF h > Len(hs) THEN 0 ELSE hs[h].pushed + xAttnLength(hs, h + 1)

\* the body of `for (let li = 0; li < N_LAYER; li++)` on lengths: x.map and
\* rmsnorm keep the length of x
layerLengths(xLen, nEmbd, nHead, vocab) ==
    LET q     == linearLengths(xLen, matrixShape(".attn_wq", nEmbd, vocab))
        k     == linearLengths(xLen, matrixShape(".attn_wk", nEmbd, vocab))
        v     == linearLengths(xLen, matrixShape(".attn_wv", nEmbd, vocab))
        xAttn == xAttnLength(heads(nEmbd, nHead), 1)
        wo    == linearLengths(xAttn, matrixShape(".attn_wo", nEmbd, vocab))
        fc1   == linearLengths(wo.out, matrixShape(".mlp_fc1", nEmbd, vocab))
        fc2   == linearLengths(fc1.out, matrixShape(".mlp_fc2", nEmbd, vocab))
    IN  [linears   |-> <<q, k, v, wo, fc1, fc2>>,
         xAttn     |-> xAttn,
         residuals |-> <<[a |-> wo.out, xResidual |-> xLen],
                         [a |-> fc2.out, xResidual |-> wo.out]>>,
         out       |-> fc2.out]

RECURSIVE layersLengths(_, _, _, _, _)
layersLengths(li, xLen, nEmbd, nHead, vocab) ==
    IF li > N_LAYER THEN [layers |-> <<>>, out |-> xLen]
    ELSE LET l    == layerLengths(xLen, nEmbd, nHead, vocab)
             rest == layersLengths(li + 1, l.out, nEmbd, nHead, vocab)
         IN  [layers |-> <<l>> \o rest.layers, out |-> rest.out]

\* gpt on lengths: tokEmb.map gives a vector as long as a row of wte
gptLengths(nEmbd, nHead, vocab) ==
    LET tokEmb == matrixShape("wte", nEmbd, vocab).nin
        ls     == layersLengths(1, tokEmb, nEmbd, nHead, vocab)
        head   == linearLengths(ls.out, matrixShape("lm_head", nEmbd, vocab))
    IN  [layers |-> ls.layers, lm_head |-> head, logits |-> head.out]

\* one call of gpt
CallGpt ==
    /\ call.fn = "gpt" /\ ret = <<>>
    /\ ret' = returned(gptLengths(call.nEmbd, call.nHead, call.vocabSize))
    /\ UNCHANGED <<heap, valueVars, trainVars, call, issues, agentVars, beatVars, replVars>>

\* rmsnorm, on the data of the Values; numbers are fractions <<num, den>>
MaxNorm == 3
NormData == {-2, 0, 1}
NormVectors == UNION {[1..n -> NormData] : n \in 1..MaxNorm}

\* `1e-5`
NORM_EPS == <<1, 100000>>

\* `x.reduce((sum, xi) => sum.add(xi.mul(xi)), new Value(0))`
RECURSIVE sumSquares(_, _)
sumSquares(x, i) ==
    IF i > Len(x) THEN 0 ELSE x[i] * x[i] + sumSquares(x, i + 1)

\* `.div(x.length)`
meanSquare(x) == norm(<<sumSquares(x, 1), Len(x)>>)

\* `.pow(-0.5)`: Math.pow gives Infinity at 0 and NaN below it
powMinusHalf(base) ==
    [kind |-> IF base[1] = 0 THEN "Infinity"
              ELSE IF base[1] < 0 THEN "NaN" ELSE "finite",
     base |-> base]

\* `xi.mul(scale)`: 0 times a finite number is 0, 0 times Infinity is NaN
scaled(xi, scale) ==
    [kind  |-> IF scale.kind = "NaN" THEN "NaN"
               ELSE IF xi # 0 THEN (IF scale.kind = "finite" THEN "product"
                                    ELSE "Infinity")
               ELSE IF scale.kind = "finite" THEN "zero" ELSE "NaN",
     x     |-> xi,
     scale |-> scale]

rmsnormWith(x, eps) ==
    LET ms    == meanSquare(x)
        base  == fracAdd(ms, eps)
        scale == powMinusHalf(base)
    IN  [base  |-> base,
         scale |-> scale,
         out   |-> [i \in 1..Len(x) |-> scaled(x[i], scale)]]

\* rmsnorm as it would be without the `.add(1e-5)`
rmsnormNoEps(x) == rmsnormWith(x, <<0, 1>>)

\* rmsnorm(x)
rmsnorm(x) == rmsnormWith(x, NORM_EPS)

\* one call of rmsnorm
CallRmsnorm ==
    /\ call.fn = "rmsnorm" /\ ret = <<>>
    /\ ret' = returned(rmsnorm(call.x))
    /\ UNCHANGED <<heap, valueVars, trainVars, call, issues, agentVars, beatVars, replVars>>

CallWeightedChoice ==
    /\ call.fn = "weightedChoice" /\ ret = <<>>
    /\ ret' = returned(weightedChoice(call.weights, call.rand))
    /\ UNCHANGED <<heap, valueVars, trainVars, call, issues, agentVars, beatVars, replVars>>

\* initialisation (`const HEAD_DIM = N_EMBD / N_HEAD`) and the heads loop of
\* the first forward pass
CallHeads ==
    /\ call.fn = "heads" /\ ret = <<>>
    /\ ret' = returned(heads(call.nEmbd, call.nHead))
    /\ UNCHANGED <<heap, valueVars, trainVars, call, issues, agentVars, beatVars, replVars>>

\* a caller that takes the softmax of logits and of logits with c added to each
CallSoftmax ==
    /\ call.fn = "softmax" /\ ret = <<>>
    /\ ret' = returned([plain   |-> softmax(call.logits),
                        shifted |-> softmax([i \in 1..Len(call.logits) |->
                                                call.logits[i] + call.c])])
    /\ UNCHANGED <<heap, valueVars, trainVars, call, issues, agentVars, beatVars, replVars>>

CallLinear ==
    /\ call.fn = "linear" /\ ret = <<>>
    /\ ret' = returned(linear(call.x, call.w))
    /\ UNCHANGED <<heap, valueVars, trainVars, call, issues, agentVars, beatVars, replVars>>

InitCalls ==
    /\ call \in [fn : {"weightedChoice"}, weights : Weights, rand : Rands]
           \cup [fn : {"heads"}, nEmbd : 1..MaxEmbd, nHead : 1..MaxHead]
           \cup [fn : {"linear"}, x : Vectors, w : Matrices]
           \cup [fn : {"softmax"}, logits : Logits, c : Shifts]
           \cup [fn : {"rmsnorm"}, x : NormVectors]
           \cup [fn : {"gpt"}, nEmbd : 1..MaxEmbd, nHead : 1..MaxHead,
                  vocabSize : 2..MaxVocab]
    /\ ret = <<>>
    /\ heap = <<>> /\ nops = 0 /\ nback = 0
    /\ docs = <<>> /\ pc = "calls"
    /\ step = 0 /\ pos = 0 /\ pidx = 0 /\ smp = 0
    /\ tokens = <<>> /\ losses = <<>> /\ loss = 0
    /\ kvKeys = <<>> /\ kvValues = <<>>
    /\ mAdam = <<>> /\ vAdam = <<>>
    /\ tokenId = 0 /\ sample = <<>>
    /\ cur = <<>> /\ prev = <<>>
    /\ mark = 0
    /\ lrT = <<0, 1>> /\ corr1 = <<0, 1>> /\ corr2 = <<0, 1>>
    /\ issues = <<>> /\ agentOff /\ beatOff /\ replOff

NextCalls ==
    \/ CallWeightedChoice \/ CallHeads \/ CallLinear \/ CallSoftmax
    \/ CallGpt \/ CallRmsnorm

SpecCalls == InitCalls /\ [][NextCalls]_vars

(***************************************************************************)
(* Properties of class Value.                                              *)
(***************************************************************************)
RECURSIVE SumF(_, _)
\* the sum of f[x] over x in S
SumF(f, S) ==
    IF S = {} THEN 0
    ELSE LET x == CHOOSE y \in S : TRUE IN f[x] + SumF(f, S \ {x})

\* the nodes reachable from r through child edges
Reach(h, r) == Closure(h, {r})

\* the first position of n in the sequence s (0 when absent)
IndexOf(s, n) ==
    IF n \in Range(s) THEN CHOOSE i \in 1..Len(s) : s[i] = n /\ \A k \in 1..(i - 1) : s[k] # n
    ELSE 0

AllGradsZero == \A n \in Nodes : heap[n].grad = 0

\* the derivative of node n's data with respect to node l by the rules of
\* calculus (forward mode), for an expression of leaves, sums and products
RECURSIVE Deriv(_, _, _)
Deriv(h, n, l) ==
    IF n = l THEN 1
    ELSE IF h[n].op = "add"
         THEN Deriv(h, h[n].children[1], l) + Deriv(h, h[n].children[2], l)
    ELSE IF h[n].op = "mul"
         THEN Deriv(h, h[n].children[1], l) * h[h[n].children[2]].data
              + h[h[n].children[1]].data * Deriv(h, h[n].children[2], l)
    ELSE 0

\* the sum over all child-edge paths from n to l of the product of the local
\* gradients along the path
RECURSIVE PathSum(_, _, _)
PathSum(h, n, l) ==
    IF n = l THEN 1
    ELSE SumF([j \in 1..Len(h[n].children) |->
                 h[n].localGrads[j] * PathSum(h, h[n].children[j], l)],
              1..Len(h[n].children))

\* r roots an expression built by add, mul, neg and sub only
Polynomial(h, r) == \A n \in Reach(h, r) : h[n].op \in {"leaf", "const", "add", "mul"}

\* C1: after root.backward() on a DAG built by add, mul, neg and sub whose
\* grads were all 0, every leaf's grad is the partial derivative of the root's
\* data with respect to the leaf, which is the sum over the paths from the
\* root to the leaf of the products of the local gradients.
C1_LeafGradIsDerivative ==
    [][\A r \in Nodes :
         (Backward(r) /\ AllGradsZero /\ Polynomial(heap, r)) =>
            \A l \in Nodes :
               heap[l].children = <<>> =>
                  /\ heap'[l].grad = (IF l \in Reach(heap, r) THEN Deriv(heap, r, l) ELSE 0)
                  /\ heap'[l].grad = (IF l \in Reach(heap, r) THEN PathSum(heap, r, l) ELSE 0)]_vars

\* a product of two distinct leaves plus one of them has been differentiated:
\* d(a*b + a)/da = b + 1 and d(a*b + a)/db = a
C1_Witness ==
    \E y \in Nodes :
       /\ heap[y].op = "add" /\ heap[y].grad = 1
       /\ \E p \in Nodes, a \in Nodes, b \in Nodes :
             /\ a # b /\ heap[a].op = "leaf" /\ heap[b].op = "leaf"
             /\ heap[p].op = "mul" /\ heap[p].children = <<a, b>>
             /\ heap[y].children = <<p, a>>
             /\ heap[a].grad = heap[b].data + 1
             /\ heap[b].grad = heap[a].data
             /\ heap[a].data # heap[b].data

\* the child edges (p, j) of nodes reachable from r that point at n
EdgesTo(h, r, n) ==
    {e \in Reach(h, r) \X (1..2) : e[2] <= Len(h[e[1]].children) /\ h[e[1]].children[e[2]] = n}

\* the sum of the contributions localGrad * parent.grad over these edges,
\* with the parents' grads taken from g
Contributions(h, g, r, n) ==
    SumF([e \in EdgesTo(h, r, n) |-> h[e[1]].localGrads[e[2]] * g[e[1]].grad],
         EdgesTo(h, r, n))

\* C2: a node with several parent edges (two parents, or twice the same
\* parent) ends backward() with the sum of all the contributions, and for
\* y = a.mul(a) with grads 0 before, a.grad = 2 * a.data.
C2_SharedNodeSumsContributions ==
    [][\A r \in Nodes :
         (Backward(r) /\ AllGradsZero) =>
            /\ \A n \in Nodes :
                  Cardinality(EdgesTo(heap, r, n)) >= 2 =>
                     heap'[n].grad = Contributions(heap, heap', r, n)
            /\ \A a \in Nodes :
                  (heap[r].op = "mul" /\ heap[r].children = <<a, a>>) =>
                     heap'[a].grad = 2 * heap[a].data]_vars

\* y = a.mul(a).add(a) was differentiated: a is twice the child of the
\* product and once the child of the sum, and its grad is 2 * a.data + 1
C2_Witness ==
    \E y \in Nodes, p \in Nodes, a \in Nodes :
       /\ heap[p].op = "mul" /\ heap[p].children = <<a, a>>
       /\ heap[y].op = "add" /\ heap[y].children = <<p, a>>
       /\ heap[y].grad = 1 /\ heap[p].grad = 1
       /\ heap[a].grad = 2 * heap[a].data + 1

\* C3: the ordering built by backward() from any root holds every node
\* reachable from the root exactly once, each after all of its children.
C3_TopoOrder ==
    \A r \in Nodes :
       LET topo == topoOf(heap, r)
       IN  /\ Range(topo) = Reach(heap, r)
           /\ Len(topo) = Cardinality(Range(topo))
           /\ \A i \in 1..Len(topo) :
                 \A c \in Range(heap[topo[i]].children) :
                    IndexOf(topo, c) \in 1..(i - 1)

\* a root reaches one node through two different parents
C3_Witness ==
    \E r \in Nodes, p \in Nodes, q \in Nodes, s \in Nodes :
       /\ p # q /\ p # r
       /\ p \in Range(heap[r].children)
       /\ q \in Reach(heap, r)
       /\ s \in Range(heap[p].children) /\ s \in Range(heap[q].children)
       /\ Len(topoOf(heap, r)) >= 4

\* what every operator method leaves alone: the nodes that existed
OldNodesKept == Len(heap') > Len(heap) /\ SubSeq(heap', 1, Len(heap)) = heap
Result == heap'[Len(heap')]
OperandData(o) == IF o.isNum THEN o.other ELSE heap[o.other].data

\* C4: every operation returns a new node and leaves the operands (and all
\* other nodes) as they were; the new node's data is the forward result and
\* its local gradients are the partial derivatives at the operands' data.
C4_OperationContract ==
    [][/\ \A a \in Nodes, o \in Operand :
             Add(a, o) =>
                /\ OldNodesKept
                /\ Result.data = heap[a].data + OperandData(o)
                /\ Result.children[1] = a
                /\ heap'[Result.children[2]].data = OperandData(o)
                /\ Result.localGrads = <<1, 1>>
       /\ \A a \in Nodes, o \in Operand :
             Mul(a, o) =>
                /\ OldNodesKept
                /\ Result.data = heap[a].data * OperandData(o)
                /\ Result.children[1] = a
                /\ heap'[Result.children[2]].data = OperandData(o)
                /\ Result.localGrads = <<OperandData(o), heap[a].data>>
       /\ \A a \in Nodes :
             Relu(a) =>
                /\ OldNodesKept
                /\ Result.data = (IF heap[a].data > 0 THEN heap[a].data ELSE 0)
                /\ Result.children = <<a>>
                /\ Result.localGrads = (IF heap[a].data > 0 THEN <<1>> ELSE <<0>>)
       /\ \A a \in Nodes :
             Neg(a) =>
                /\ OldNodesKept
                /\ Result.data = 0 - heap[a].data
                /\ Result.children[1] = a
                /\ Result.localGrads[1] = -1
       /\ \A a \in Nodes, o \in Operand :
             Sub(a, o) =>
                /\ OldNodesKept
                /\ Result.data = heap[a].data - OperandData(o)
                /\ Result.children[1] = a
                /\ Result.localGrads[1] = 1
                /\ LET m == heap'[Result.children[2]]
                   IN  /\ heap'[m.children[1]].data = OperandData(o)
                       /\ ~o.isNum => m.children[1] = o.other
                       /\ Result.localGrads[2] * m.localGrads[1] = -1
       /\ \A a \in Nodes, n \in PowExp :
             Pow(a, n) =>
                /\ OldNodesKept
                /\ Result.data = Power(heap[a].data, n)
                /\ Result.children = <<a>>
                /\ Result.localGrads = <<n * Power(heap[a].data, n - 1)>>]_vars

\* a product of operands with different data was built over nodes whose grad
\* a backward() had set, and a relu of a non-positive node was built
C4_Witness ==
    /\ \E y \in Nodes :
          /\ heap[y].op = "mul" /\ heap[y].grad = 0
          /\ heap[heap[y].children[1]].data # heap[heap[y].children[2]].data
          /\ heap[heap[y].children[1]].grad # 0
    /\ \E z \in Nodes :
          /\ heap[z].op = "relu" /\ heap[heap[z].children[1]].data <= 0

\* C5: every node has as many local gradients as children, and the leaves
\* (parameters made by `new Value(x)`, coerced numeric constants) have none.
C5_ChildrenMatchLocalGrads ==
    \A n \in Nodes :
       /\ Len(heap[n].children) = Len(heap[n].localGrads)
       /\ heap[n].op \in {"leaf", "const"} =>
             heap[n].children = <<>> /\ heap[n].localGrads = <<>>

\* a sum of a parameter and a coerced constant exists
C5_Witness ==
    \E y \in Nodes :
       /\ heap[y].op = "add" /\ Len(heap[y].children) = 2
       /\ heap[heap[y].children[1]].op = "leaf"
       /\ heap[heap[y].children[2]].op = "const"

FrameOfBackward ==
    /\ Len(heap') = Len(heap)
    /\ \A n \in Nodes :
          /\ heap'[n].data = heap[n].data
          /\ heap'[n].children = heap[n].children
          /\ heap'[n].localGrads = heap[n].localGrads

\* C6 as claimed: backward() changes no data and changes a grad only by
\* adding to its previous value: the seed 1 at the root, the chain-rule
\* contributions elsewhere.
C6_Original_OnlyAdds ==
    [][\A r \in Nodes :
         Backward(r) =>
            /\ FrameOfBackward
            /\ \A n \in Nodes :
                  heap'[n].grad = heap[n].grad + (IF n = r THEN 1 ELSE 0)
                                  + Contributions(heap, heap', r, n)]_vars

\* C6 as amended: backward() changes no data; it overwrites the root's grad
\* with 1 and changes every other grad only by adding the chain-rule
\* contributions to its previous value.
C6_OverwritesRootAddsElsewhere ==
    [][\A r \in Nodes :
         Backward(r) =>
            /\ FrameOfBackward
            /\ heap'[r].grad = 1
            /\ \A n \in Nodes \ {r} :
                  heap'[n].grad = heap[n].grad + Contributions(heap, heap', r, n)]_vars

\* backward() ran twice on one root: the root's grad is 1, its child's grad
\* holds both runs' contributions
C6_Witness ==
    \E y \in Nodes, a \in Nodes :
       /\ nback = 2 /\ heap[y].op = "relu" /\ heap[y].children = <<a>>
       /\ heap[a].data > 0 /\ heap[y].grad = 1 /\ heap[a].grad = 2


(***************************************************************************)
(* Properties of the training and inference loops.                         *)
(***************************************************************************)
Layers == 1..N_LAYER
\* a call of gpt: one iteration of either inner loop
GptCall == Forward \/ \E tok \in 0..(vocabSize - 1) : Generate(tok)
\* the start of a sequence: a training document or an inference sample
BeginSequence == BeginStep \/ BeginSample
AppendedOne(old, new) == Len(new) = Len(old) + 1 /\ SubSeq(new, 1, Len(old)) = old

\* C7: within one sequence, after the k-th call of gpt every layer's key
\* cache and value cache has length exactly k (at the head of either inner
\* loop k is pos); every call appends exactly one entry per layer to each
\* cache and leaves the entries already there in place; a new sequence
\* starts with empty caches; nothing else touches the caches.
C7_KvCacheGrowsByOne ==
    /\ [](pc \in {"forward", "gen"} =>
            \A li \in Layers : Len(kvKeys[li]) = pos /\ Len(kvValues[li]) = pos)
    /\ [][/\ GptCall =>
               \A li \in Layers : /\ AppendedOne(kvKeys[li], kvKeys'[li])
                                  /\ AppendedOne(kvValues[li], kvValues'[li])
          /\ BeginSequence =>
               \A li \in Layers : kvKeys'[li] = <<>> /\ kvValues'[li] = <<>>
          /\ ~GptCall /\ ~BeginSequence => UNCHANGED <<kvKeys, kvValues>>]_vars

\* the third call of gpt of the second training step is about to be made
C7_Witness ==
    /\ pc = "forward" /\ pos = 2 /\ step = 1
    /\ \A li \in Layers : Len(kvKeys[li]) = 2 /\ Len(kvValues[li]) = 2

\* the positions (counted from 1) up to which two logged sequences agree
Agree(a, b, q) ==
    /\ q <= Len(a.tokens) /\ q <= Len(b.tokens)
    /\ \A i \in 1..q : a.tokens[i] = b.tokens[i]

\* C8: two token sequences processed with the same parameters that agree on
\* the positions 0..p-1 get, at every position below p, the same logits and
\* the same key and value cache entries in every layer, whatever the tokens
\* from position p on are.  The two sequences are the inference sample
\* being generated and the one generated before it.
C8_PrefixDeterminesOutputs ==
    pc \in {"gen", "infer", "done"} =>
        \A q \in 1..BLOCK_SIZE :
            Agree(prev, cur, q) =>
                /\ prev.logits[q] = cur.logits[q]
                /\ \A li \in Layers : /\ prev.keys[li][q] = cur.keys[li][q]
                                      /\ prev.values[li][q] = cur.values[li][q]

\* two samples that agree on the positions 0 and 1 and differ at position 2
C8_Witness ==
    /\ pc = "infer"
    /\ Len(prev.tokens) = 3 /\ Len(cur.tokens) = 3
    /\ Agree(prev, cur, 2)
    /\ prev.tokens[3] # cur.tokens[3]
    /\ prev.logits[3] # cur.logits[3]

\* C9: at the moment loss.backward() is called in a training step, the
\* grad of every parameter is exactly 0.
C9_ParamGradsZeroAtBackward ==
    pc = "backward" => \A p \in Range(params) : heap[p].grad = 0

\* backward() is about to be called in the second step, after an Adam
\* pass that changed parameters
C9_Witness ==
    /\ pc = "backward" /\ step = 1
    /\ \E p \in Range(params) : heap[p].data # 0
    /\ \E p \in Range(params) : p \in Reach(heap, loss)

\* C10: at the moment loss.backward() is called, every node the loss
\* reaches has grad 0, and the nodes it reaches other than the parameters,
\* the cached keys and values among them, were all created in the current
\* step: no node of an earlier step is reachable.
C10_ReachableGradsZeroAndFresh ==
    pc = "backward" =>
        /\ \A x \in Reach(heap, loss) :
              /\ heap[x].grad = 0
              /\ x \notin Range(params) => x > mark
        /\ \A x \in cacheIds(kvKeys) \cup cacheIds(kvValues) :
              x \in Reach(heap, loss) /\ x > mark

\* backward() is about to be called in the second step on a loss that
\* reaches cached keys and values of three positions
C10_Witness ==
    /\ pc = "backward" /\ step = 1
    /\ Len(kvKeys[1]) = 3
    /\ \E x \in Reach(heap, loss) : x \notin Range(params) /\ heap[x].op = "mlp_block"

(***************************************************************************)
(* Properties of the optimizer's schedule.                                 *)
(***************************************************************************)
\* the 1-indexed count of the step being run
StepCount == step + 1
Zero == <<0, 1>>
\* LEARNING_RATE / NUM_STEPS, the amount the rate loses per step
LrDecrement == <<LEARNING_RATE[1], LEARNING_RATE[2] * NUM_STEPS>>

\* C11 as stated: at the step with 1-indexed count t the learning rate applied is
\* lr_0 * (1 - t / total_steps), and so it is 0 at the final step.
C11_Original_ZeroAtFinalStep ==
    pc = "adam" =>
        /\ fracEq(lrT, fracMul(LEARNING_RATE, fracSub(One, <<StepCount, NUM_STEPS>>)))
        /\ (StepCount = NUM_STEPS => fracEq(lrT, Zero))

\* C11, amended: at the step with 1-indexed count t the learning rate applied is
\* lr_0 * (1 - (t - 1) / total_steps): it is lr_0 at the first step, loses
\* lr_0 / total_steps from each step to the next, and is lr_0 / total_steps, not 0,
\* at the final step.
C11_LearningRateCountsFromZero ==
    /\ [](pc = "adam" =>
            /\ fracEq(lrT, fracMul(LEARNING_RATE,
                                   fracSub(One, <<StepCount - 1, NUM_STEPS>>)))
            /\ (StepCount = 1 => fracEq(lrT, LEARNING_RATE))
            /\ (StepCount = NUM_STEPS => fracEq(lrT, LrDecrement) /\ fracLess(Zero, lrT)))
    /\ [][pc = "backward" /\ pc' = "adam" /\ step > 0
            => fracEq(lrT', fracSub(lrT, LrDecrement))]_vars

\* the last training step is applying its learning rate
C11_Witness == pc = "adam" /\ StepCount = NUM_STEPS /\ pidx > 0

\* C12: at the step with 1-indexed count t, Adam divides m by 1 - BETA1^t and v by
\* 1 - BETA2^t; t is at least 1 at every step, so both divisors are strictly
\* positive at every step, the first included.
C12_BiasCorrectionPositive ==
    pc = "adam" /\ pidx > 0 =>
        /\ StepCount >= 1
        /\ fracEq(corr1, fracSub(One, fracPow(BETA1, StepCount)))
        /\ fracEq(corr2, fracSub(One, fracPow(BETA2, StepCount)))
        /\ fracLess(Zero, corr1)
        /\ fracLess(Zero, corr2)

\* the first step has corrected the moments of a parameter
C12_Witness == pc = "adam" /\ pidx > 0 /\ StepCount = 1 /\ fracEq(corr1, <<15, 100>>)

(***************************************************************************)
(* Properties of the inference loop.                                       *)
(***************************************************************************)
\* the number of forward passes run so far for the sample being generated
ForwardPasses == Len(cur.tokens)

\* C13: generating one sample always terminates after at most BLOCK_SIZE forward
\* passes, whatever tokens the random source selects: no sample runs more than
\* BLOCK_SIZE calls of gpt, every statement run while a sample is generated either
\* ends the sample or is one more forward pass at the next position, and every
\* sample that is begun is ended.
C13_SampleTerminates ==
    /\ [](ForwardPasses <= BLOCK_SIZE)
    /\ [][pc = "gen" => \/ pc' = "infer" /\ smp' = smp + 1
                        \/ /\ pc' = "gen" /\ pos' = pos + 1
                           /\ ForwardPasses' = ForwardPasses + 1]_vars
    /\ \A s \in 0..(NUM_SAMPLES - 1) :
          (pc = "gen" /\ smp = s) ~> (pc = "infer" /\ smp = s + 1)

\* a sample ended by the loop bound, after BLOCK_SIZE forward passes
C13_Witness == pc = "infer" /\ smp > 0 /\ ForwardPasses = BLOCK_SIZE /\ tokenId # BOS

\* the tokens weightedChoice has returned so far for the sample being generated
Sampled == IF ForwardPasses = 0 THEN <<>> ELSE Tail(cur.tokens) \o <<tokenId>>
\* a step of the inference loop that runs a forward pass
GenPass == pc = "gen" /\ ForwardPasses' = ForwardPasses + 1

\* C14: in the inference loop a sampled BOS ends the sample at once: BOS is never
\* appended to the output and no further forward pass is run for that sample;
\* every other sampled token is appended exactly once, in order, so the output
\* has at most BLOCK_SIZE symbols.
C14_BosEndsSampleUnappended ==
    /\ [][GptCall /\ GenPass =>
            IF tokenId' = BOS
            THEN sample' = sample /\ pc' = "infer" /\ smp' = smp + 1
            ELSE sample' = Append(sample, uchars[tokenId' + 1]) /\ pc' = "gen"]_vars
    /\ [](pc = "gen" => \A i \in 1..Len(Sampled) : Sampled[i] # BOS)
    /\ [](pc \in {"gen", "infer"} /\ ForwardPasses > 0 =>
            LET out == SelectSeq(Sampled, LAMBDA t : t # BOS)
            IN  /\ sample = [i \in 1..Len(out) |-> uchars[out[i] + 1]]
                /\ Len(sample) <= BLOCK_SIZE)

\* a sample with output was ended by a sampled BOS
C14_Witness == pc = "infer" /\ smp > 0 /\ tokenId = BOS /\ Len(sample) > 0

(***************************************************************************)
(* Properties of the helper functions.                                     *)
(***************************************************************************)
Returned(fn) == pc = "calls" /\ call.fn = fn /\ ret # <<>>
\* w[0] + ... + w[i], i counted from 0
Cumulative(weights, i) == total(SubSeq(weights, 1, i + 1))

\* C15 as stated: for non-negative weights with positive total and a uniform draw
\* u in [0, 1), weightedChoice returns the smallest index whose cumulative weight
\* exceeds u * total, and so never an index whose weight is 0.
C15_Original_SmallestExceeding ==
    Returned("weightedChoice") =>
        LET w      == call.weights
            target == fracMul(call.rand, <<total(w), 1>>)
            i      == ret.value
        IN  /\ i \in 0..(Len(w) - 1)
            /\ fracLess(target, <<Cumulative(w, i), 1>>)
            /\ \A j \in 0..(i - 1) : ~fracLess(target, <<Cumulative(w, j), 1>>)
            /\ w[i + 1] # 0

\* C16 as stated: if the embedding width is not evenly divisible by the head count,
\* initialisation fails with a fatal error before any forward pass is run, so the
\* heads loop of a forward pass never returns for such a configuration.
C16_Original_IndivisibleIsFatal ==
    Returned("heads") /\ call.nEmbd % call.nHead # 0 => ret.kind # "returned"

\* C17 as stated: calling linear(x, w) with x.length different from the length of a
\* row of w is a fatal error: it never returns a result vector, neither one
\* computed from missing entries nor one that ignores surplus entries of x.
C17_Original_MismatchIsFatal ==
    Returned("linear") /\ (\E r \in 1..Len(call.w) : Len(call.x) # Len(call.w[r]))
        => ret.kind # "returned"

(***************************************************************************)
(* Properties of the indices the loops use.                                *)
(***************************************************************************)
\* C18: every call of gpt by the training loop and by the inference loop has
\* 0 <= posId < BLOCK_SIZE; in training exactly min(BLOCK_SIZE, tokens.length - 1)
\* positions are processed, in order from 0, and the target tokens[pos + 1] exists
\* for each of them, also for documents longer than BLOCK_SIZE.
C18_PositionsWithinBlock ==
    /\ [][GptCall => 0 <= pos /\ pos < BLOCK_SIZE]_vars
    /\ [][Forward => /\ Len(losses) = pos
                     /\ (pos + 1) + 1 \in 1..Len(tokens)]_vars
    /\ [][MeanLoss => /\ pos = Min(BLOCK_SIZE, Len(tokens) - 1)
                      /\ Len(losses) = Min(BLOCK_SIZE, Len(tokens) - 1)]_vars

\* the positions of a document longer than BLOCK_SIZE have been processed
C18_Witness ==
    pc = "backward" /\ Len(tokens) - 1 > BLOCK_SIZE /\ Len(losses) = BLOCK_SIZE

\* the ids of the characters of the documents
CharIds == UNION {{indexOf(docs[d][i]) : i \in 1..Len(docs[d])} : d \in 1..Len(docs)}
ValidToken(t) ==
    /\ t \in 0..(vocabSize - 1)
    /\ t + 1 \in DOMAIN stateDict("wte")
    /\ t + 1 \in DOMAIN stateDict("lm_head")

\* C19: BOS is one past the last character id and differs from every character
\* id; every token id passed to gpt and every target index used for the loss, in
\* training and in inference, lies in [0, vocabSize), and so is a row of the
\* token-embedding table and an index of the logits.
C19_TokenIdsInVocabulary ==
    /\ [](/\ BOS \notin CharIds
          /\ \A c \in CharIds : c < BOS
          /\ BOS - 1 \in CharIds
          /\ ValidToken(BOS))
    /\ [][Forward => ValidToken(tokens[pos + 1]) /\ ValidToken(tokens[pos + 2])]_vars
    /\ [][GptCall /\ GenPass => ValidToken(tokenId) /\ ValidToken(tokenId')]_vars

\* a step has taken the final BOS of its document as the target of its last loss
C19_Witness ==
    pc = "backward" /\ Len(losses) > 1 /\ Len(losses) = Len(tokens) - 1
    /\ tokens[Len(losses) + 1] = BOS

(***************************************************************************)
(* Properties of the Adam buffers.                                         *)
(***************************************************************************)
ParamIds == 1..Len(params)

\* C20: the Adam buffers m and v have the length of the flattened parameter list
\* throughout training; an iteration of the Adam loop changes only m[i] and v[i]
\* of its own i, and these from params[i].grad and their previous value alone; no
\* other statement writes the buffers, so they are never reset or reallocated
\* between steps and a second moment that has become positive stays positive.
C20_MomentsAlignedAndKept ==
    /\ [](Len(mAdam) = Len(params) /\ Len(vAdam) = Len(params))
    /\ [][AdamParam =>
            LET i == pidx + 1
                g == heap[params[i]].grad
            IN  /\ \A j \in ParamIds \ {i} : mAdam'[j] = mAdam[j] /\ vAdam'[j] = vAdam[j]
                /\ (mAdam'[i] = 0) = (mAdam[i] = 0 /\ g = 0)
                /\ (vAdam'[i] = 0) = (vAdam[i] = 0 /\ g = 0)]_vars
    /\ [][pc # "adam" => mAdam' = mAdam /\ vAdam' = vAdam]_vars
    /\ [][\A j \in ParamIds : vAdam[j] # 0 => vAdam'[j] # 0]_vars

\* a later step reaches a parameter that has no gradient in it and a second
\* moment from an earlier step
C20_Witness ==
    /\ pc = "adam" /\ step > 0 /\ pidx > 0 /\ pidx < Len(params)
    /\ heap[params[pidx + 1]].grad = 0 /\ vAdam[pidx + 1] # 0

(***************************************************************************)
(* Properties of the parameters during inference.                          *)
(***************************************************************************)
Inferring == pc \in {"infer", "gen", "done"}

\* C21: during inference no parameter's data and no parameter's grad changes: all
\* parameter updates happen before the first inference forward pass, and the
\* inference loop never returns to backward() or to the optimizer, whose moments
\* stay as training left them.
C21_ParametersFrozenInInference ==
    /\ [][Inferring =>
            /\ \A i \in 1..Len(params) :
                  /\ params[i] \in DOMAIN heap'
                  /\ heap'[params[i]].data = heap[params[i]].data
                  /\ heap'[params[i]].grad = heap[params[i]].grad
            /\ Inferring'
            /\ UNCHANGED <<mAdam, vAdam, step>>]_vars
    /\ [](Inferring => step = NUM_STEPS)

\* an inference forward pass has run on parameters that training updated
C21_Witness ==
    /\ pc = "gen" /\ ForwardPasses > 0
    /\ \E i \in 1..Len(params) : heap[params[i]].data # 0

\* C22: softmax is invariant to adding the same constant to every input logit: for
\* every non-empty logit vector l and constant c the values exponentiated for
\* l + c are those for l, l[i] - max(l), and so the probabilities are the same.
C22_SoftmaxShiftInvariant ==
    Returned("softmax") =>
        LET l == call.logits
            a == ret.value.plain
            b == ret.value.shifted
        IN  /\ Len(a) = Len(l) /\ Len(b) = Len(l)
            /\ \A i \in 1..Len(l) :
                  /\ a[i].num.of = l[i] - maxOf(l)
                  /\ b[i].num.of = a[i].num.of
            /\ a = b

\* softmax has returned for logits that are not all equal and a shift that
\* changes them
C22_Witness ==
    /\ Returned("softmax") /\ call.c # 0
    /\ \E i, j \in 1..Len(call.logits) : call.logits[i] < call.logits[j]

\* ---------------------------------------------------------------------
\* beads (src/ai/beads/beads.ts): the issue tracker
\* ---------------------------------------------------------------------

MaxIssues == 3
MaxLinks == 3

Statuses == {"open", "in-progress", "closed"}

Ids(iss) == {iss[i].id : i \in 1..Len(iss)}

\* generateId: an id no other issue of the file has.
generateId(iss) == Len(iss) + 1

\* new Date().toISOString(): the clock never runs backwards, and two
\* commands may fall into the same millisecond.
Now(iss) == IF Len(iss) = 0 THEN {1}
            ELSE {iss[Len(iss)].createdAt, iss[Len(iss)].createdAt + 1}

\* findIssue: the index of the first issue with this id, 0 if none.
findIssue(iss, id) ==
    IF id \in Ids(iss)
    THEN CHOOSE i \in 1..Len(iss) :
             /\ iss[i].id = id
             /\ \A j \in 1..(i - 1) : iss[j].id # id
    ELSE 0

includes(seq, x) == x \in Range(seq)

RECURSIVE idsOf(_)
idsOf(iss) ==
    IF Len(iss) = 0 THEN <<>> ELSE <<Head(iss).id>> \o idsOf(Tail(iss))

\* blockedBy.get(blockedId) of getTransitiveBlockers: the ids of the issues
\* whose blocks list holds blockedId, in file order (blocks holds no id
\* twice, so an issue is pushed at most once).
blockedBy(iss, blockedId) ==
    idsOf(SelectSeq(iss, LAMBDA issue : includes(issue.blocks, blockedId)))

hangs == [kind |-> "hangs"]

\* The for...of loop of getTransitiveBlockers over queue, at index i.
\* queue IS the array blockedBy.get(issueId); when the loop reaches
\* id = issueId, the inner loop iterates over that very array and pushes
\* one element to it for each element it reads, so it never ends.
RECURSIVE walkQueue(_, _, _, _, _)
walkQueue(iss, issueId, queue, i, visited) ==
    IF i > Len(queue) THEN returned(visited)
    ELSE LET id == queue[i] IN
         IF id \in visited
         THEN walkQueue(iss, issueId, queue, i + 1, visited)
         ELSE IF id = issueId
         THEN hangs
         ELSE walkQueue(iss, issueId, queue \o blockedBy(iss, id),
                        i + 1, visited \cup {id})

getTransitiveBlockers(iss, issueId) ==
    walkQueue(iss, issueId, blockedBy(iss, issueId), 1, {})

\* The callback of every(): the blocker is missing or closed.
blockerClosed(iss, blockerId) ==
    \/ findIssue(iss, blockerId) = 0
    \/ iss[findIssue(iss, blockerId)].status = "closed"

\* Array.prototype.sort with (a, b) => a.createdAt.localeCompare(b.createdAt):
\* stable, ascending by createdAt.
RECURSIVE insertSorted(_, _)
insertSorted(sorted, issue) ==
    IF Len(sorted) = 0 THEN <<issue>>
    ELSE IF sorted[Len(sorted)].createdAt <= issue.createdAt
    THEN Append(sorted, issue)
    ELSE Append(insertSorted(SubSeq(sorted, 1, Len(sorted) - 1), issue),
                sorted[Len(sorted)])

RECURSIVE sortByCreatedAt(_)
sortByCreatedAt(seq) ==
    IF Len(seq) = 0 THEN <<>>
    ELSE insertSorted(sortByCreatedAt(SubSeq(seq, 1, Len(seq) - 1)),
                      seq[Len(seq)])

getReadyIssues(iss) ==
    LET openIssues == SelectSeq(iss, LAMBDA i : i.status # "closed")
        blockers(issue) == getTransitiveBlockers(iss, issue.id)
    IN  IF \E k \in 1..Len(openIssues) : blockers(openIssues[k]).kind = "hangs"
        THEN hangs
        ELSE returned(sortByCreatedAt(SelectSeq(openIssues,
                 LAMBDA issue : \A blockerId \in blockers(issue).value :
                                    blockerClosed(iss, blockerId))))

nLinks(iss) == Cardinality({<<i, b>> \in (1..Len(iss)) \X Ids(iss) :
                               includes(iss[i].blocks, b)})

(* The bd commands: each loads the file, acts and saves it. *)

beadsIdle ==
    UNCHANGED <<heap, valueVars, trainVars, call, agentVars, beatVars, replVars>>

\* What a command leaves behind: the file, and in ret what it reported.
\* ret = <<>>: nothing on console.error, process.exitCode not set.
\* Of an issue the model keeps id, title, status, blocks and createdAt;
\* description, tags and updatedAt are read by no function modelled here.

\* console.error(`  ${message}: ${id}`); process.exitCode = 1; return;
\* loaded is what loadIssues returned, mem the issues as the handler has
\* changed them in memory since: a `return` does not save them.
exitsSaving(loaded, mem, message, id) ==
    [file |-> mem,
     ret  |-> [fn |-> "error", exitCode |-> 1, stderr |-> <<message, id>>]]

exits(loaded, mem, message, id) ==
    [file |-> loaded,
     ret  |-> [fn |-> "error", exitCode |-> 1, stderr |-> <<message, id>>]]

\* saveIssues(issues); console.log(...)
saved(mem) == [file |-> mem, ret |-> <<>>]

\* console.log(...) without saveIssues
unsaved(loaded) == [file |-> loaded, ret |-> <<>>]

\* `if (opts.key)`: the option was given and is not the empty string.
given(opts, key) == key \in DOMAIN opts /\ opts[key] # ""

\* the action of `bd update <id>` with --title and --status
bdUpdate(iss, id, opts) ==
    LET k == findIssue(iss, id) IN
    IF k = 0 THEN exits(iss, iss, "Issue not found", id)
    ELSE LET titled == IF given(opts, "title")
                       THEN [iss EXCEPT ![k].title = opts.title]
                       ELSE iss
         IN  IF given(opts, "status")
             THEN IF ~includes(<<"open", "in-progress", "closed">>, opts.status)
                  THEN exits(iss, titled, "Invalid status", opts.status)
                  ELSE saved([titled EXCEPT ![k].status = opts.status])
             ELSE saved(titled)

\* the action of `bd close <id>`
bdClose(iss, id) ==
    LET k == findIssue(iss, id) IN
    IF k = 0 THEN exits(iss, iss, "Issue not found", id)
    ELSE saved([iss EXCEPT ![k].status = "closed"])

\* the action of `bd link <from> <to>`
bdLink(iss, fromId, toId) ==
    LET from == findIssue(iss, fromId)
        to   == findIssue(iss, toId)
    IN  IF from = 0 THEN exits(iss, iss, "Issue not found", fromId)
        ELSE IF to = 0 THEN exits(iss, iss, "Issue not found", toId)
        ELSE IF includes(iss[from].blocks, iss[to].id) THEN unsaved(iss)
        ELSE saved([iss EXCEPT ![from].blocks = Append(@, iss[to].id)])

\* the action of `bd unlink <from> <to>`
bdUnlink(iss, fromId, toId) ==
    LET from == findIssue(iss, fromId)
        to   == findIssue(iss, toId)
    IN  IF from = 0 THEN exits(iss, iss, "Issue not found", fromId)
        ELSE IF to = 0 THEN exits(iss, iss, "Issue not found", toId)
        ELSE IF ~includes(iss[from].blocks, iss[to].id) THEN unsaved(iss)
        ELSE saved([iss EXCEPT ![from].blocks =
                       SelectSeq(@, LAMBDA b : b # iss[to].id)])

\* the action of `bd show <id>`: formatIssueDetail asks for the
\* transitive blockers
bdShow(iss, id) ==
    IF findIssue(iss, id) = 0 THEN exits(iss, iss, "Issue not found", id)
    ELSE [file |-> iss,
          ret  |-> [fn |-> "getTransitiveBlockers", issueId |-> id,
                    out |-> getTransitiveBlockers(iss, id)]]

\* bd create <title>
Create ==
    /\ pc = "beads" /\ Len(issues) < MaxIssues
    /\ \E now \in Now(issues) :
         issues' = Append(issues, [id |-> generateId(issues),
                                   title |-> "a",
                                   status |-> "open",
                                   blocks |-> <<>>,
                                   createdAt |-> now])
    /\ ret' = <<>>
    /\ beadsIdle

\* bd update <id> [--title <title>] [--status <status>]
Update(id, opts) ==
    /\ pc = "beads"
    /\ issues' = bdUpdate(issues, id, opts).file
    /\ ret' = bdUpdate(issues, id, opts).ret
    /\ beadsIdle

\* bd close <id>
Close(id) ==
    /\ pc = "beads"
    /\ issues' = bdClose(issues, id).file
    /\ ret' = bdClose(issues, id).ret
    /\ beadsIdle

\* bd link <from> <to>: from blocks to
Link(fromId, toId) ==
    /\ pc = "beads"
    /\ nLinks(bdLink(issues, fromId, toId).file) <= MaxLinks
    /\ issues' = bdLink(issues, fromId, toId).file
    /\ ret' = bdLink(issues, fromId, toId).ret
    /\ beadsIdle

\* bd unlink <from> <to>
Unlink(fromId, toId) ==
    /\ pc = "beads"
    /\ issues' = bdUnlink(issues, fromId, toId).file
    /\ ret' = bdUnlink(issues, fromId, toId).ret
    /\ beadsIdle

\* bd show <id>
Show(id) ==
    /\ pc = "beads"
    /\ issues' = bdShow(issues, id).file
    /\ ret' = bdShow(issues, id).ret
    /\ beadsIdle

\* bd ready
Ready ==
    /\ pc = "beads"
    /\ ret' = [fn |-> "getReadyIssues", out |-> getReadyIssues(issues)]
    /\ UNCHANGED issues
    /\ beadsIdle

InitBeads ==
    /\ issues = <<>> /\ ret = <<>> /\ call = <<>>
    /\ heap = <<>> /\ nops = 0 /\ nback = 0
    /\ docs = <<>> /\ pc = "beads"
    /\ step = 0 /\ pos = 0 /\ pidx = 0 /\ smp = 0
    /\ tokens = <<>> /\ losses = <<>> /\ loss = 0
    /\ kvKeys = <<>> /\ kvValues = <<>>
    /\ mAdam = <<>> /\ vAdam = <<>>
    /\ tokenId = 0 /\ sample = <<>>
    /\ cur = <<>> /\ prev = <<>>
    /\ mark = 0
    /\ lrT = <<0, 1>> /\ corr1 = <<0, 1>> /\ corr2 = <<0, 1>>
    /\ agentOff /\ beatOff /\ replOff

NextBeads ==
    \/ Create
    \/ \E id \in 1..MaxIssues, status \in Statuses :
           Update(id, [status |-> status])
    \/ \E id \in 1..MaxIssues : Close(id)
    \/ \E fromId \in 1..MaxIssues, toId \in 1..MaxIssues : Link(fromId, toId)
    \/ \E fromId \in 1..MaxIssues, toId \in 1..MaxIssues : Unlink(fromId, toId)
    \/ \E id \in 1..MaxIssues : Show(id)
    \/ Ready

SpecBeads == InitBeads /\ [][NextBeads]_vars

(* Dependency queries (C23, C24) *)

\* a blocks b: b is in the blocks list of issue a.
Blocks(a, b) ==
    findIssue(issues, a) # 0 /\ includes(issues[findIssue(issues, a)].blocks, b)

\* The ids from which x is reached by one or more blocks edges.
RECURSIVE Reaching(_, _)
Reaching(x, found) ==
    LET more == {a \in Ids(issues) : \E b \in found \cup {x} : Blocks(a, b)}
    IN  IF more \subseteq found THEN found ELSE Reaching(x, found \cup more)

Blockers(x) == Reaching(x, {})

NotClosed(id) == issues[findIssue(issues, id)].status # "closed"

ReadyIds == {id \in Ids(issues) :
               NotClosed(id) /\ \A b \in Blockers(id) : ~NotClosed(b)}

OldestFirst(seq) ==
    \A i, j \in 1..Len(seq) : i < j => seq[i].createdAt <= seq[j].createdAt

AskedBlockers == ret # <<>> /\ ret.fn = "getTransitiveBlockers"
AskedReady == ret # <<>> /\ ret.fn = "getReadyIssues"

\* C24: getTransitiveBlockers(issues, X) returns exactly the ids from which
\* X is reached by following one or more blocks edges.
C24_Original_ExactlyTheReachingIds ==
    AskedBlockers =>
        /\ ret.out.kind = "returned"
        /\ ret.out.value = Blockers(ret.issueId)

\* C23: getReadyIssues returns exactly the issues that are not closed and
\* have no transitive blocker that is not closed, oldest first.
C23_Original_ReadyQueue ==
    AskedReady =>
        /\ ret.out.kind = "returned"
        /\ Ids(ret.out.value) = ReadyIds
        /\ Len(ret.out.value) = Cardinality(ReadyIds)
        /\ OldestFirst(ret.out.value)

\* x lies on a cycle of blocks edges.
OnCycle(x) == x \in Blockers(x)

\* Off the cycles the walk returns exactly the reaching ids.
BlockersExactOffCycles ==
    AskedBlockers =>
        IF OnCycle(ret.issueId)
        THEN ret.out = hangs
        ELSE ret.out = returned(Blockers(ret.issueId))

\* bd ready answers unless an issue that is not closed lies on a cycle.
ReadyExactOffCycles ==
    AskedReady =>
        IF \E id \in Ids(issues) : NotClosed(id) /\ OnCycle(id)
        THEN ret.out = hangs
        ELSE /\ ret.out.kind = "returned"
             /\ Ids(ret.out.value) = ReadyIds
             /\ Len(ret.out.value) = Cardinality(ReadyIds)
             /\ OldestFirst(ret.out.value)

\* ---------------------------------------------------------------------
\* Mini Claude Code and OpenClaw (src/ai/claude-code/README.md)
\* ---------------------------------------------------------------------

(* Strings the programs look into are sequences of characters. *)

Sp == " "

isSpace(c) == c = Sp

\* String.prototype.includes
contains(s, p) ==
    \E k \in 0..(Len(s) - Len(p)) : SubSeq(s, k + 1, k + Len(p)) = p

\* String.prototype.trim
RECURSIVE trimStart(_)
trimStart(s) ==
    IF Len(s) > 0 /\ isSpace(Head(s)) THEN trimStart(Tail(s)) ELSE s

RECURSIVE trimEnd(_)
trimEnd(s) ==
    IF Len(s) > 0 /\ isSpace(s[Len(s)])
    THEN trimEnd(SubSeq(s, 1, Len(s) - 1))
    ELSE s

trim(s) == trimEnd(trimStart(s))

\* s.split(/\s+/)[0]: the characters before the first white space.
RECURSIVE firstWord(_)
firstWord(s) ==
    IF Len(s) = 0 \/ isSpace(Head(s)) THEN <<>>
    ELSE <<Head(s)>> \o firstWord(Tail(s))

\* String.prototype.toLowerCase, on the letters the answers use.
lowerChar(c) == CASE c = "Y" -> "y" [] c = "N" -> "n" [] OTHER -> c

toLowerCase(s) == [k \in 1..Len(s) |-> lowerChar(s[k])]

\* The commands the model asks for.
Ls      == <<"l", "s">>
SpLs    == <<" ", "l", "s">>
Rm      == <<"r", "m">>
RmX     == <<"r", "m", " ", "x">>
CurlA   == <<"c", "u", "r", "l", " ", "a">>
CurlB   == <<"c", "u", "r", "l", " ", "b">>
EchoTo  == <<"e", "c", "h", "o", " ", ">", " ", "f">>

Commands == {Ls, SpLs, Rm, RmX, CurlA, CurlB, EchoTo}

\* What the user types at a prompt.
Answers == {<<"y">>, <<" ", "Y">>, <<"n">>, <<>>, <<"y", "e", "s">>}

isYes(answer) == toLowerCase(trim(answer)) = <<"y">>

(* Mini Claude Code: permission controls *)

DANGEROUS_PATTERNS ==
    << <<"r", "m", " ">>, <<"s", "u", "d", "o", " ">>,
       <<"c", "h", "m", "o", "d", " ">>, <<"m", "v", " ">>,
       <<"c", "p", " ">>, <<">", " ">>, <<">", ">">> >>

\* typeof toolInput.command === "string" ? toolInput.command : ""
stringOr(toolInput, key, default) ==
    IF key \in DOMAIN toolInput THEN toolInput[key] ELSE default

\* checkPermission up to its await: does it ask the user?
asksPermissionNoWrite(toolName, toolInput) ==
    /\ toolName = "run_command"
    /\ \E k \in 1..Len(DANGEROUS_PATTERNS) :
          contains(stringOr(toolInput, "command", <<>>), DANGEROUS_PATTERNS[k])

asksPermission(toolName, toolInput) ==
    IF toolName = "run_command"
    THEN \E k \in 1..Len(DANGEROUS_PATTERNS) :
            contains(stringOr(toolInput, "command", <<>>),
                     DANGEROUS_PATTERNS[k])
    ELSE toolName = "write_file"

(* OpenClaw: permission controls *)

SAFE_COMMANDS ==
    { <<"l", "s">>, <<"c", "a", "t">>, <<"h", "e", "a", "d">>,
      <<"t", "a", "i", "l">>, <<"w", "c">>, <<"d", "a", "t", "e">>,
      <<"w", "h", "o", "a", "m", "i">>, <<"e", "c", "h", "o">>,
      <<"p", "w", "d">>, <<"w", "h", "i", "c", "h">>, <<"g", "i", "t">>,
      <<"p", "y", "t", "h", "o", "n">>, <<"n", "o", "d", "e">>,
      <<"n", "p", "m">> }

baseCmd(command) == firstWord(trim(command))

\* saveApproval: the list is extended unless it holds the command.
saveApproval(appr, command, approved) ==
    LET key == IF approved THEN "allowed" ELSE "denied" IN
    IF includes(appr[key], command) THEN appr
    ELSE [appr EXCEPT ![key] = Append(@, command)]

checkCommandSafetyByBase(appr, command) ==
    IF baseCmd(command) \in SAFE_COMMANDS THEN "safe"
    ELSE IF \E k \in 1..Len(appr.allowed) :
                baseCmd(appr.allowed[k]) = baseCmd(command)
    THEN "approved"
    ELSE "needs_approval"

checkCommandSafety(appr, command) ==
    IF baseCmd(command) \in SAFE_COMMANDS THEN "safe"
    ELSE IF includes(appr.allowed, command) THEN "approved"
    ELSE "needs_approval"

(* Tool calls and messages *)

\* block.input: an object with some fields, or anything else.
object(fields) == [isRecord |-> TRUE, fields |-> fields]
notObject == [isRecord |-> FALSE, fields |-> [other |-> "x"]]

isRecord(v) == v.isRecord

ToolCalls ==
    {[name |-> "run_command", input |-> object([command |-> c])] :
        c \in Commands}
    \cup {[name |-> "run_command", input |-> object([other |-> "x"])],
          [name |-> "run_command", input |-> notObject],
          [name |-> "write_file",
           input |-> object([path |-> "f", content |-> "c"])],
          [name |-> "read_file", input |-> object([path |-> "f"])]}

textBlock == [type |-> "text"]
thinkingBlock == [type |-> "thinking"]
toolUse(tc) ==
    [type |-> "tool_use", name |-> tc.name, input |-> tc.input]

\* response.content, before the API numbers its tool_use blocks.
Contents ==
    {<<textBlock>>, <<thinkingBlock, textBlock>>}
    \cup {<<toolUse(c)>> : c \in ToolCalls}
    \cup {<<textBlock, toolUse(c)>> : c \in {d \in ToolCalls :
                                              d.name = "write_file"}}
    \cup {<<toolUse(c), toolUse(c)>> : c \in {d \in ToolCalls :
             d.name = "run_command" /\ d.input = object([command |-> CurlA])}}

StopReasons == {"end_turn", "tool_use", "max_tokens"}

\* The API gives every tool_use block an id of its own.
withIds(content, n) ==
    [k \in 1..Len(content) |->
        IF content[k].type = "tool_use"
        THEN [type |-> "tool_use", id |-> <<n, k>>,
              name |-> content[k].name, input |-> content[k].input]
        ELSE content[k]]

Responses(n) ==
    {[stop_reason |-> s, content |-> withIds(c, n)] :
        s \in StopReasons, c \in Contents}

RECURSIVE serializeContent(_)
serializeContent(content) ==
    IF Len(content) = 0 THEN <<>>
    ELSE LET block == Head(content) IN
         (IF block.type \in {"text", "tool_use"} THEN <<block>> ELSE <<>>)
         \o serializeContent(Tail(content))

\* MessageParam.content is a string or an array of blocks. TLC cannot ask
\* a value which of the two it is, so the string is kept as an array of
\* one element that is no block of the API (typeof content === "string").
string(text) == <<[type |-> "string", text |-> text]>>

userMessage == [role |-> "user", content |-> string("text")]
assistantMessage(content) == [role |-> "assistant", content |-> content]
resultsMessage(results) == [role |-> "user", content |-> results]
toolResult(block, result) ==
    [type |-> "tool_result", tool_use_id |-> block.id, content |-> result]

\* getString: the field must be there and be a string.
hasString(toolInput, key) == key \in DOMAIN toolInput.fields

\* What executing a tool comes to: it throws, or it returns a result, having
\* acted (ran) or not.
threw == [threw |-> TRUE, ran |-> FALSE, result |-> "Error"]
result(text, ran) == [threw |-> FALSE, ran |-> ran, result |-> text]

\* Mini Claude Code: executeTool
executeToolMini(name, toolInput) ==
    IF ~isRecord(toolInput) THEN result("Error: invalid tool input", FALSE)
    ELSE CASE name = "read_file" ->
                IF hasString(toolInput, "path")
                THEN result("output", TRUE) ELSE threw
           [] name = "write_file" ->
                IF hasString(toolInput, "path")
                   /\ hasString(toolInput, "content")
                THEN result("output", TRUE) ELSE threw
           [] name = "list_files" -> result("output", TRUE)
           [] name = "run_command" ->
                IF hasString(toolInput, "command")
                THEN result("output", TRUE) ELSE threw
           [] OTHER -> result("Unknown tool", FALSE)

\* OpenClaw: executeTool once the command is cleared, and for the other tools
executeToolClaw(name, toolInput) ==
    CASE name = "run_command" -> result("output", TRUE)
      [] name = "read_file" ->
           IF hasString(toolInput, "path")
           THEN result("output", TRUE) ELSE threw
      [] name = "write_file" ->
           IF hasString(toolInput, "path") /\ hasString(toolInput, "content")
           THEN result("output", TRUE) ELSE threw
      [] name = "save_memory" ->
           IF hasString(toolInput, "key") /\ hasString(toolInput, "content")
           THEN result("output", TRUE) ELSE threw
      [] name = "memory_search" ->
           IF hasString(toolInput, "query")
           THEN result("output", FALSE) ELSE threw
      [] OTHER -> result("Unknown tool", FALSE)

(* The state of one agent turn *)

MAX_ITERATIONS == 2

agentIdle ==
    UNCHANGED <<heap, valueVars, docs, step, pos, tokens, kvKeys, kvValues,
                losses, loss, mAdam, vAdam, pidx, smp, tokenId, sample, cur,
                prev, mark, lrT, corr1, corr2, call, issues, beatVars, replVars>>

noResponse == [stop_reason |-> "none", content |-> <<>>]
noEvent == [name |-> "none"]

\* What became of a tool call: was the user asked, what was the answer,
\* did the tool act, and the tool result handed to the model.
toolEvent(block, asked, answer, x) ==
    [name |-> block.name, input |-> block.input, asked |-> asked,
     answer |-> answer, executed |-> x.ran, result |-> x.result]

nextPassInclusive(again, done, out) ==
    /\ iter' = iter + 1
    /\ IF iter + 1 <= MAX_ITERATIONS
       THEN pc' = again /\ UNCHANGED ret
       ELSE pc' = done /\ ret' = returned(out)

\* for (let i = 0; i < 20; i++): the end of one pass of the loop body
nextPass(again, done, out) ==
    /\ iter' = iter + 1
    /\ IF iter + 1 < MAX_ITERATIONS
       THEN pc' = again /\ UNCHANGED ret
       ELSE pc' = done /\ ret' = returned(out)

(* Mini Claude Code: agentLoop *)

\* conversationHistory.push({ role: "user", content: userMessage })
LoopStart ==
    /\ pc = "loop:start"
    /\ messages' = Append(messages, userMessage)
    /\ pc' = "loop:call"
    /\ UNCHANGED <<sessions, iter, response, blk, toolResults, apiCalls,
                   approvals, event, answeredYes, ret>>
    /\ agentIdle

\* await client.messages.create(...) returns
LoopRespond ==
    /\ pc = "loop:call"
    /\ \E r \in Responses(Len(apiCalls) + 1) :
         /\ response' = r
         /\ messages' = Append(messages,
                               assistantMessage(serializeContent(r.content)))
         /\ IF r.stop_reason = "end_turn"
            THEN /\ pc' = "loop:returned"
                 /\ ret' = returned(messages')
                 /\ UNCHANGED <<blk, toolResults>>
            ELSE /\ pc' = "loop:blocks"
                 /\ blk' = 1 /\ toolResults' = <<>>
                 /\ UNCHANGED ret
    /\ apiCalls' = Append(apiCalls, "loop")
    /\ UNCHANGED <<sessions, iter, approvals, event, answeredYes>>
    /\ agentIdle

\* The call is refused: the tool result says so and the tool is not run.
loopDenied(block, asked, answer) ==
    /\ toolResults' = Append(toolResults,
                             toolResult(block, "Permission denied by user"))
    /\ event' = toolEvent(block, asked, answer,
                          result("Permission denied by user", FALSE))
    /\ blk' = blk + 1
    /\ pc' = "loop:blocks"

\* const result = executeTool(block.name, block.input)
loopExecute(block, asked, answer) ==
    LET x == executeToolMini(block.name, block.input) IN
    IF x.threw
    THEN /\ pc' = "loop:thrown"
         /\ event' = toolEvent(block, asked, answer, x)
         /\ UNCHANGED <<toolResults, blk>>
    ELSE /\ toolResults' = Append(toolResults, toolResult(block, x.result))
         /\ event' = toolEvent(block, asked, answer, x)
         /\ blk' = blk + 1
         /\ pc' = "loop:blocks"

\* One block of response.content, up to the await of checkPermission.
LoopBlock ==
    /\ pc = "loop:blocks" /\ blk <= Len(response.content)
    /\ LET block == response.content[blk] IN
         IF block.type # "tool_use"
         THEN /\ blk' = blk + 1
              /\ UNCHANGED <<pc, toolResults, event>>
         ELSE IF ~isRecord(block.input)
         THEN loopDenied(block, FALSE, <<>>)
         ELSE IF asksPermission(block.name, block.input.fields)
         THEN /\ pc' = "loop:ask"
              /\ UNCHANGED <<blk, toolResults, event>>
         ELSE loopExecute(block, FALSE, <<>>)
    /\ UNCHANGED <<messages, sessions, iter, response, apiCalls, approvals,
                   answeredYes, ret>>
    /\ agentIdle

\* await rl.question(...) of checkPermission returns
LoopAnswer ==
    /\ pc = "loop:ask"
    /\ \E answer \in Answers :
         LET block == response.content[blk] IN
         IF isYes(answer)
         THEN loopExecute(block, TRUE, answer)
         ELSE loopDenied(block, TRUE, answer)
    /\ UNCHANGED <<messages, sessions, iter, response, apiCalls, approvals,
                   answeredYes, ret>>
    /\ agentIdle

\* conversationHistory.push({ role: "user", content: toolResults })
LoopResults ==
    /\ pc = "loop:blocks" /\ blk > Len(response.content)
    /\ messages' = Append(messages, resultsMessage(toolResults))
    /\ nextPass("loop:call", "loop:returned", messages')
    /\ UNCHANGED <<sessions, response, blk, toolResults, apiCalls, approvals,
                   event, answeredYes>>
    /\ agentIdle

(* OpenClaw: sessions *)

\* A session key is kept as its parts and the separators between them.
sessionKey == <<"agent", ":", "main", ":", "repl">>

\* getSessionPath: sessionKey.replace(/[:/]/g, "_"), and .jsonl is added.
getSessionPath(key) ==
    [k \in 1..Len(key) |-> IF key[k] \in {":", "/"} THEN "_" ELSE key[k]]
        \o <<".jsonl">>

SessionPaths == {getSessionPath(sessionKey)}

\* JSON.stringify(message) + "\n": one line of the session file
jsonLine(message) == [json |-> message]

isMessageParam(parsed) == {"role", "content"} \subseteq DOMAIN parsed

RECURSIVE parseLines(_)
parseLines(lines) ==
    IF Len(lines) = 0 THEN <<>>
    ELSE (IF isMessageParam(Head(lines).json)
          THEN <<Head(lines).json>> ELSE <<>>)
         \o parseLines(Tail(lines))

loadSession(files, key) == parseLines(files[getSessionPath(key)])

appendNothing(files, key, message) == files

appendMessage(files, key, message) ==
    [files EXCEPT ![getSessionPath(key)] = Append(@, jsonLine(message))]

saveSession(files, key, msgs) ==
    [files EXCEPT ![getSessionPath(key)] =
        [k \in 1..Len(msgs) |-> jsonLine(msgs[k])]]

summaryMessage ==
    [role |-> "user", content |-> string("[Conversation summary]")]

\* compactSession past its await: the summary replaces the older half.
compacted(msgs) ==
    LET split == Len(msgs) \div 2 IN
    <<summaryMessage>> \o SubSeq(msgs, split + 1, Len(msgs))

last(seq) == seq[Len(seq)]

(* OpenClaw: runAgentTurn *)

\* let messages = loadSession(sessionKey); compactSession up to its await.
\* estimateTokens depends on the length of the texts, which the model of
\* the messages leaves open: any history with a message may be too long.
TurnLoad ==
    /\ pc = "turn:load"
    /\ messages' = loadSession(sessions, sessionKey)
    /\ \E tooLong \in {b \in BOOLEAN : b => Len(messages') > 0} :
         pc' = IF tooLong THEN "turn:compact" ELSE "turn:user"
    /\ UNCHANGED <<sessions, iter, response, blk, toolResults, apiCalls,
                   approvals, event, answeredYes, ret>>
    /\ agentIdle

\* The summary call of compactSession returns: saveSession(compacted)
TurnCompact ==
    /\ pc = "turn:compact"
    /\ apiCalls' = Append(apiCalls, "summary")
    /\ messages' = compacted(messages)
    /\ sessions' = saveSession(sessions, sessionKey, messages')
    /\ pc' = "turn:user"
    /\ UNCHANGED <<iter, response, blk, toolResults, approvals, event,
                   answeredYes, ret>>
    /\ agentIdle

\* messages.push(userMsg)
TurnUser ==
    /\ pc = "turn:user"
    /\ messages' = Append(messages, userMessage)
    /\ pc' = "turn:appendUser"
    /\ UNCHANGED <<sessions, iter, response, blk, toolResults, apiCalls,
                   approvals, event, answeredYes, ret>>
    /\ agentIdle

\* appendMessage(sessionKey, userMsg)
TurnAppendUser ==
    /\ pc = "turn:appendUser"
    /\ sessions' = appendMessage(sessions, sessionKey, last(messages))
    /\ pc' = "turn:call"
    /\ UNCHANGED <<messages, iter, response, blk, toolResults, apiCalls,
                   approvals, event, answeredYes, ret>>
    /\ agentIdle

\* await client.messages.create(...) returns; messages.push(assistantMsg)
TurnRespond ==
    /\ pc = "turn:call"
    /\ \E r \in Responses(Len(apiCalls) + 1) :
         /\ response' = r
         /\ messages' = Append(messages,
                               assistantMessage(serializeContent(r.content)))
    /\ apiCalls' = Append(apiCalls, "loop")
    /\ pc' = "turn:appendAssistant"
    /\ UNCHANGED <<sessions, iter, blk, toolResults, approvals, event,
                   answeredYes, ret>>
    /\ agentIdle

\* appendMessage(sessionKey, assistantMsg), then the two tests of stop_reason
TurnAppendAssistant ==
    /\ pc = "turn:appendAssistant"
    /\ sessions' = appendMessage(sessions, sessionKey, last(messages))
    /\ IF response.stop_reason = "end_turn"
       THEN /\ pc' = "turn:returned" /\ ret' = returned("text")
            /\ UNCHANGED <<iter, blk, toolResults>>
       ELSE IF response.stop_reason = "tool_use"
       THEN /\ pc' = "turn:tools" /\ blk' = 1 /\ toolResults' = <<>>
            /\ UNCHANGED <<iter, ret>>
       ELSE /\ nextPass("turn:call", "turn:returned", "(max turns reached)")
            /\ UNCHANGED <<blk, toolResults>>
    /\ UNCHANGED <<messages, response, apiCalls, approvals, event,
                   answeredYes>>
    /\ agentIdle

\* executeTool returned: the result joins toolResults
turnResult(block, asked, answer, x) ==
    IF x.threw
    THEN /\ pc' = "turn:thrown"
         /\ event' = toolEvent(block, asked, answer, x)
         /\ UNCHANGED <<toolResults, blk>>
    ELSE /\ toolResults' = Append(toolResults, toolResult(block, x.result))
         /\ event' = toolEvent(block, asked, answer, x)
         /\ blk' = blk + 1
         /\ pc' = "turn:tools"

\* One block of response.content: executeTool up to its await, if it has one
TurnTool ==
    /\ pc = "turn:tools" /\ blk <= Len(response.content)
    /\ LET block == response.content[blk] IN
         IF block.type # "tool_use"
         THEN /\ blk' = blk + 1
              /\ UNCHANGED <<pc, toolResults, event>>
         ELSE IF ~isRecord(block.input)
         THEN turnResult(block, FALSE, <<>>,
                         result("Error: invalid tool input", FALSE))
         ELSE IF block.name # "run_command"
         THEN turnResult(block, FALSE, <<>>,
                         executeToolClaw(block.name, block.input))
         ELSE IF ~hasString(block.input, "command")
         THEN turnResult(block, FALSE, <<>>, threw)
         ELSE IF checkCommandSafety(approvals, block.input.fields.command)
                    = "needs_approval"
         THEN /\ pc' = "turn:ask"
              /\ UNCHANGED <<blk, toolResults, event>>
         ELSE turnResult(block, FALSE, <<>>,
                         executeToolClaw(block.name, block.input))
    /\ UNCHANGED <<messages, sessions, iter, response, apiCalls, approvals,
                   answeredYes, ret>>
    /\ agentIdle

\* await rl.question(...) of executeTool returns
TurnAnswer ==
    /\ pc = "turn:ask"
    /\ \E answer \in Answers :
         LET block == response.content[blk]
             cmd == block.input.fields.command
         IN  IF ~isYes(answer)
             THEN /\ approvals' = saveApproval(approvals, cmd, FALSE)
                  /\ turnResult(block, TRUE, answer,
                                result("Permission denied by user.", FALSE))
                  /\ UNCHANGED answeredYes
             ELSE /\ approvals' = saveApproval(approvals, cmd, TRUE)
                  /\ answeredYes' = answeredYes \cup {cmd}
                  /\ turnResult(block, TRUE, answer,
                                executeToolClaw(block.name, block.input))
    /\ UNCHANGED <<messages, sessions, iter, response, apiCalls, ret>>
    /\ agentIdle

\* messages.push(resultsMsg)
TurnResults ==
    /\ pc = "turn:tools" /\ blk > Len(response.content)
    /\ messages' = Append(messages, resultsMessage(toolResults))
    /\ pc' = "turn:appendResults"
    /\ UNCHANGED <<sessions, iter, response, blk, toolResults, apiCalls,
                   approvals, event, answeredYes, ret>>
    /\ agentIdle

\* appendMessage(sessionKey, resultsMsg); i++
TurnAppendResults ==
    /\ pc = "turn:appendResults"
    /\ sessions' = appendMessage(sessions, sessionKey, last(messages))
    /\ nextPass("turn:call", "turn:returned", "(max turns reached)")
    /\ UNCHANGED <<messages, response, blk, toolResults, apiCalls, approvals,
                   event, answeredYes>>
    /\ agentIdle

(* One turn of either program *)

priorTool == [type |-> "tool_use", id |-> <<0, 1>>, name |-> "read_file",
              input |-> object([path |-> "f"])]

\* The conversations a turn may start from.
Histories ==
    { <<>>,
      <<userMessage, assistantMessage(<<textBlock>>)>>,
      <<userMessage, assistantMessage(<<priorTool>>),
        resultsMessage(<<toolResult(priorTool, "output")>>),
        assistantMessage(<<textBlock>>)>> }

\* exec-approvals.json as earlier turns left it
PriorApprovals ==
    { [allowed |-> <<>>, denied |-> <<>>],
      [allowed |-> <<CurlA>>, denied |-> <<RmX>>] }

InitAgent ==
    /\ \/ /\ pc = "loop:start"
          /\ messages \in Histories
          /\ sessions = [p \in SessionPaths |-> <<>>]
          /\ approvals = [allowed |-> <<>>, denied |-> <<>>]
       \/ /\ pc = "turn:load"
          /\ messages = <<>>
          /\ \E h \in Histories :
               sessions = saveSession([p \in SessionPaths |-> <<>>],
                                      sessionKey, h)
          /\ approvals \in PriorApprovals
    /\ answeredYes = Range(approvals.allowed)
    /\ iter = 0 /\ apiCalls = <<>>
    /\ response = noResponse /\ blk = 0 /\ toolResults = <<>>
    /\ event = noEvent
    /\ ret = <<>> /\ call = <<>> /\ issues = <<>> /\ beatOff /\ replOff
    /\ heap = <<>> /\ nops = 0 /\ nback = 0
    /\ docs = <<>>
    /\ step = 0 /\ pos = 0 /\ pidx = 0 /\ smp = 0
    /\ tokens = <<>> /\ losses = <<>> /\ loss = 0
    /\ kvKeys = <<>> /\ kvValues = <<>>
    /\ mAdam = <<>> /\ vAdam = <<>>
    /\ tokenId = 0 /\ sample = <<>>
    /\ cur = <<>> /\ prev = <<>>
    /\ mark = 0
    /\ lrT = <<0, 1>> /\ corr1 = <<0, 1>> /\ corr2 = <<0, 1>>

NextAgent ==
    \/ LoopStart \/ LoopRespond \/ LoopBlock \/ LoopAnswer \/ LoopResults
    \/ TurnLoad \/ TurnCompact \/ TurnUser \/ TurnAppendUser \/ TurnRespond
    \/ TurnAppendAssistant \/ TurnTool \/ TurnAnswer \/ TurnResults
    \/ TurnAppendResults

SpecAgent == InitAgent /\ [][NextAgent]_vars

SpecAgentFair == SpecAgent /\ WF_vars(NextAgent)

(* One agent turn: calls of the model API and termination (C25) *)

Calls(kind) == Cardinality({k \in 1..Len(apiCalls) : apiCalls[k] = kind})

InLoop == pc \in {"loop:start", "loop:call", "loop:blocks", "loop:ask",
                 "loop:returned", "loop:thrown"}
InTurn == pc \in {"turn:load", "turn:compact", "turn:user", "turn:appendUser",
                 "turn:call", "turn:appendAssistant", "turn:tools",
                 "turn:ask", "turn:appendResults", "turn:returned",
                 "turn:thrown"}
HasReturned == pc \in {"loop:returned", "turn:returned"}
Thrown == pc \in {"loop:thrown", "turn:thrown"}
Ended == HasReturned \/ Thrown

Dangerous(cmd) ==
    \E k \in 1..Len(DANGEROUS_PATTERNS) : contains(cmd, DANGEROUS_PATTERNS[k])

CommandOf(e) == stringOr(e.input.fields, "command", <<>>)

onDisk == loadSession(sessions, sessionKey)

Front(seq) == SubSeq(seq, 1, Len(seq) - 1)

\* The turn waits: for the model API or for the user's answer.
AtAwait == pc \in {"turn:compact", "turn:call", "turn:ask"}

\* C30: during an OpenClaw turn every message pushed to the history is
\* appended to the session file before the next await; at every point the
\* file holds the history, or the history without its last message.
C30_DiskFollowsHistory ==
    InTurn /\ pc # "turn:load" =>
        /\ AtAwait => onDisk = messages
        /\ \/ onDisk = messages
           \/ Len(messages) > 0 /\ onDisk = Front(messages)

C30_Witness ==
    /\ pc = "turn:appendResults"
    /\ Len(messages) > 3
    /\ onDisk = Front(messages)
    /\ messages[1] = summaryMessage

\* ---------------------------------------------------------------------
\* OpenClaw: the REPL and the heartbeat timer
\* ---------------------------------------------------------------------

MaxDays == 2
MaxTicks == 3

MinutesPerDay == 1440

\* Local time minus UTC, in minutes, of the zones tried.
Zones == {-480, 0, 450, 840}

\* Instants are minutes of local time, counted from local midnight of day 0.
\* The minutes of a day that are tried: 00:00, 07:29, 07:30, 07:31, 23:59.
MinutesTried == {0, 449, 450, 451, 1439}

Instants == {d * MinutesPerDay + m : d \in 1..MaxDays, m \in MinutesTried}

\* String(n).padStart(2, "0")
padStart2(n) == <<n \div 10, n % 10>>

\* now.getHours(), now.getMinutes(): local time
getHours(t) == (t % MinutesPerDay) \div 60
getMinutes(t) == t % 60

\* `${hours}:${minutes}`
timeOf(t) == padStart2(getHours(t)) \o <<":">> \o padStart2(getMinutes(t))

HalfPastSeven == <<0, 7, ":", 3, 0>>

\* now.toISOString().slice(0, 10): the date in UTC, as a day number
isoDate(t, zone) == (t - zone) \div MinutesPerDay

\* lastHeartbeatDate = ""
noDate == -1

heartbeatDueByTime(t, zone, lastDate) ==
    timeOf(t) = HalfPastSeven

\* time === "07:30" && date !== lastHeartbeatDate
heartbeatDue(t, zone, lastDate) ==
    timeOf(t) = HalfPastSeven /\ isoDate(t, zone) # lastDate

(* runAgentTurn as the event loop sees it: a chain of awaits *)

noTurn == [at |-> "none", iter |-> 0]
turnDone == [at |-> "done", iter |-> 0]

\* runAgentTurn runs up to its first await: the summary call of
\* compactSession, or the first call of the loop.
turnStarts == {[at |-> "compact", iter |-> 0], [at |-> "api", iter |-> 0]}

\* The end of one pass of the loop: the next call, or the return.
passEnd(t) ==
    IF t.iter + 1 < MAX_ITERATIONS
    THEN [at |-> "api", iter |-> t.iter + 1]
    ELSE turnDone

\* Where the turn is after its pending await has returned: at the next call,
\* at the prompt of a run_command to approve, or at its end.
turnSteps(t) ==
    CASE t.at = "compact" -> {[at |-> "api", iter |-> t.iter]}
      [] t.at = "api" -> {turnDone, [at |-> "ask", iter |-> t.iter], passEnd(t)}
      [] t.at = "ask" -> {turnDone, [at |-> "ask", iter |-> t.iter], passEnd(t)}
      [] OTHER -> {}

InProgress(t) == t.at \in {"compact", "api", "ask"}

beatIdle ==
    UNCHANGED <<heap, valueVars, trainVars, callVars, issues, agentVars,
                replVars>>

now == IF Len(ticks) = 0 THEN MinutesPerDay ELSE ticks[Len(ticks)]

(* main *)

\* await rl.question("You: ") returns a line that starts a turn.
UserMessage ==
    /\ repl = "prompt"
    /\ \E t \in turnStarts : userTurn' = t
    /\ repl' = "turn"
    /\ UNCHANGED <<ticks, tz, lastHeartbeatDate, cronTurns, starts>>
    /\ beatIdle

\* ... an empty line or /new: the loop continues.
UserOther ==
    /\ repl = "prompt"
    /\ UNCHANGED <<ticks, tz, lastHeartbeatDate, repl, userTurn, cronTurns,
                   starts>>
    /\ beatIdle

\* ... /quit: rl.close(); process.exit(0)
UserQuit ==
    /\ repl = "prompt"
    /\ repl' = "exited"
    /\ UNCHANGED <<ticks, tz, lastHeartbeatDate, userTurn, cronTurns, starts>>
    /\ beatIdle

\* An await of the user's turn returns.
UserTurnStep ==
    /\ repl = "turn" /\ InProgress(userTurn)
    /\ \E t \in turnSteps(userTurn) : userTurn' = t
    /\ UNCHANGED <<ticks, tz, lastHeartbeatDate, repl, cronTurns, starts>>
    /\ beatIdle

\* await runAgentTurn(...) returns: main prints the response and loops.
UserTurnEnd ==
    /\ repl = "turn" /\ userTurn = turnDone
    /\ repl' = "prompt"
    /\ userTurn' = noTurn
    /\ UNCHANGED <<ticks, tz, lastHeartbeatDate, cronTurns, starts>>
    /\ beatIdle

(* setupHeartbeats *)

\* The callback of setInterval runs, at instant t: the event loop runs it
\* whenever no other callback is running, whatever main is awaiting.
Tick ==
    /\ repl \in {"prompt", "turn"}
    /\ Len(ticks) < MaxTicks
    /\ \E t \in Instants :
         /\ t >= now
         /\ ticks' = Append(ticks, t)
         /\ IF heartbeatDue(t, tz, lastHeartbeatDate)
            THEN /\ lastHeartbeatDate' = isoDate(t, tz)
                 /\ \E c \in turnStarts : cronTurns' = Append(cronTurns, c)
                 /\ starts' = Append(starts, t)
            ELSE UNCHANGED <<lastHeartbeatDate, cronTurns, starts>>
    /\ UNCHANGED <<tz, repl, userTurn>>
    /\ beatIdle

\* An await of a heartbeat's turn returns.
CronTurnStep ==
    /\ repl \in {"prompt", "turn"}
    /\ \E k \in 1..Len(cronTurns) :
         /\ InProgress(cronTurns[k])
         /\ \E t \in turnSteps(cronTurns[k]) :
              cronTurns' = [cronTurns EXCEPT ![k] = t]
    /\ UNCHANGED <<ticks, tz, lastHeartbeatDate, repl, userTurn, starts>>
    /\ beatIdle

InitHeartbeat ==
    /\ ticks = <<>> /\ tz \in Zones /\ lastHeartbeatDate = noDate
    /\ repl = "prompt" /\ userTurn = noTurn
    /\ cronTurns = <<>> /\ starts = <<>>
    /\ pc = "repl"
    /\ agentOff /\ replOff
    /\ ret = <<>> /\ call = <<>> /\ issues = <<>>
    /\ heap = <<>> /\ nops = 0 /\ nback = 0
    /\ docs = <<>>
    /\ step = 0 /\ pos = 0 /\ pidx = 0 /\ smp = 0
    /\ tokens = <<>> /\ losses = <<>> /\ loss = 0
    /\ kvKeys = <<>> /\ kvValues = <<>>
    /\ mAdam = <<>> /\ vAdam = <<>>
    /\ tokenId = 0 /\ sample = <<>>
    /\ cur = <<>> /\ prev = <<>>
    /\ mark = 0
    /\ lrT = <<0, 1>> /\ corr1 = <<0, 1>> /\ corr2 = <<0, 1>>

NextHeartbeat ==
    \/ UserMessage \/ UserOther \/ UserQuit \/ UserTurnStep \/ UserTurnEnd
    \/ Tick \/ CronTurnStep

SpecHeartbeat == InitHeartbeat /\ [][NextHeartbeat]_vars

(* The heartbeat and the user's turn (C26) *)

HeartbeatStarts == Len(cronTurns') > Len(cronTurns)

\* C26: a heartbeat turn does not start while a user turn is in progress.
C26_Original_HeartbeatWaitsForUserTurn ==
    [][HeartbeatStarts => repl = "prompt"]_vars

(* At most one heartbeat per date (C27) *)

localDate(t) == t \div MinutesPerDay

\* C27: whatever the ticks, no two heartbeat turns start on the same
\* calendar date, be it the local date or the date in UTC.
C27_OneHeartbeatPerDate ==
    \A j, k \in 1..Len(starts) :
        j < k => /\ localDate(starts[j]) # localDate(starts[k])
                 /\ isoDate(starts[j], tz) # isoDate(starts[k], tz)

\* Two ticks in the minute 07:30 of one day, and one turn started.
C27_Witness ==
    /\ Len(ticks) >= 2
    /\ ticks[1] = ticks[2]
    /\ timeOf(ticks[1]) = HalfPastSeven
    /\ Len(starts) = 1

\* ---------------------------------------------------------------------
\* Termination of the dependency walk (C36)

\* C36: getTransitiveBlockers, and with it bd show and bd ready, terminate
\* for every set of issues that bd link can produce, cycles and self-links
\* included.
C36_Original_WalkTerminates ==
    (AskedBlockers \/ AskedReady) => ret.out.kind # "hangs"

\* ---------------------------------------------------------------------
\* Commands that fail (C37)

MaxStored == 2

\* The files that MaxStored or fewer `bd create` leave behind.
CreatedFiles ==
    UNION {{[i \in 1..n |-> [id |-> i, title |-> "a", status |-> "open",
                             blocks |-> <<>>, createdAt |-> t[i]]] :
              t \in {t \in [1..n -> 1..MaxIssues] :
                       \A i \in 1..n :
                           t[i] \in IF i = 1 THEN {1}
                                    ELSE {t[i - 1], t[i - 1] + 1}}} :
           n \in 0..MaxStored}

\* --status: the three statuses and one that is none of them
StatusArgs == Statuses \cup {"done"}

\* --title: the empty string and a new title
TitleArgs == {"", "b"}

\* the options of bd update: any of --title and --status, or neither
UpdateOpts ==
    {[k \in {} |-> ""]}
        \cup [title : TitleArgs] \cup [status : StatusArgs]
        \cup [title : TitleArgs, status : StatusArgs]

\* the ids typed: those of the issues and ids of no issue
IdArgs == 1..MaxIssues

InitBd ==
    /\ issues \in CreatedFiles /\ ret = <<>> /\ call = <<>>
    /\ heap = <<>> /\ nops = 0 /\ nback = 0
    /\ docs = <<>> /\ pc = "beads"
    /\ step = 0 /\ pos = 0 /\ pidx = 0 /\ smp = 0
    /\ tokens = <<>> /\ losses = <<>> /\ loss = 0
    /\ kvKeys = <<>> /\ kvValues = <<>>
    /\ mAdam = <<>> /\ vAdam = <<>>
    /\ tokenId = 0 /\ sample = <<>>
    /\ cur = <<>> /\ prev = <<>>
    /\ mark = 0
    /\ lrT = <<0, 1>> /\ corr1 = <<0, 1>> /\ corr2 = <<0, 1>>
    /\ agentOff /\ beatOff /\ replOff

\* show, update, close, link and unlink on such a file
NextBd ==
    \/ \E id \in IdArgs, opts \in UpdateOpts : Update(id, opts)
    \/ \E id \in IdArgs : Close(id)
    \/ \E fromId \in IdArgs, toId \in IdArgs : Link(fromId, toId)
    \/ \E fromId \in IdArgs, toId \in IdArgs : Unlink(fromId, toId)
    \/ \E id \in IdArgs : Show(id)

SpecBd == InitBd /\ [][NextBd]_vars

Unknown(id) == findIssue(issues, id) = 0

InvalidStatus(opts) == given(opts, "status") /\ opts.status \notin Statuses

\* the command reported message on console.error and set exit code 1
Reported(message) ==
    /\ ret' # <<>> /\ ret'.fn = "error"
    /\ ret'.exitCode = 1 /\ ret'.stderr[1] = message

Sending == pc \in {"loop:call", "turn:call"}

\* The blocks of this type in a message; a message whose content is a
\* string has none.
blocksOfType(message, type) ==
    SelectSeq(message.content, LAMBDA b : b.type = type)

\* Every tool_result of msgs[i] answers a tool_use of msgs[i - 1], which is
\* an assistant message.
ResultsAnswerCalls(msgs) ==
    \A i \in 1..Len(msgs) :
        \A r \in Range(blocksOfType(msgs[i], "tool_result")) :
            /\ i > 1
            /\ msgs[i - 1].role = "assistant"
            /\ \E u \in Range(blocksOfType(msgs[i - 1], "tool_use")) :
                   u.id = r.tool_use_id

\* Every tool_use of an assistant message that is not the last has exactly
\* one tool_result in the message after it.
CallsAnswered(msgs) ==
    \A i \in 1..(Len(msgs) - 1) :
        msgs[i].role = "assistant" =>
            \A u \in Range(blocksOfType(msgs[i], "tool_use")) :
                Len(SelectSeq(blocksOfType(msgs[i + 1], "tool_result"),
                              LAMBDA r : r.tool_use_id = u.id)) = 1

\* C38: in every message list sent to the API each tool_result refers to a
\* tool_use of the assistant message right before it, and each tool_use of
\* an assistant message that is followed by a message has exactly one
\* tool_result with its id in that message.
C38_Original_ResultsPairedWithCalls ==
    Sending => ResultsAnswerCalls(messages) /\ CallsAnswered(messages)

\* ---------------------------------------------------------------------
\* OpenClaw: the REPL and its sessions (C31)
\* ---------------------------------------------------------------------

MaxClock == 3
MaxTurns == 3

\* What the user types at "You: ".
NewLine      == <<"/", "N", "e", "w", " ">>
ResearchLine == <<"/", "r", "e", "s", "e", "a", "r", "c", "h", " ", "x">>
TextLine     == <<"h", "i">>
QuitLine     == <<"/", "q">>
Lines == {NewLine, ResearchLine, TextLine, QuitLine, <<" ">>}

startsWith(s, prefix) ==
    Len(s) >= Len(prefix) /\ SubSeq(s, 1, Len(prefix)) = prefix

\* resolveAgent
resolveAgent(messageText) ==
    LET prefix == <<"/", "r", "e", "s", "e", "a", "r", "c", "h", " ">> IN
    IF startsWith(messageText, prefix)
    THEN [agentId |-> "researcher",
          text |-> SubSeq(messageText, Len(prefix) + 1, Len(messageText))]
    ELSE [agentId |-> "main", text |-> messageText]

\* AGENTS[agentId].sessionPrefix
sessionPrefix(agentId) ==
    IF agentId = "main" THEN <<"agent", ":", "main">>
    ELSE <<"agent", ":", "researcher">>

\* The decimal digits of a number below ten.
decimal(n) == <<"0", "1", "2", "3", "4", "5", "6", "7", "8", "9">>[n + 1]

\* new Date().toISOString().replace(/[-:T]/g, "").slice(0, 14): the
\* fourteen digits of the date and the time down to the second. The
\* milliseconds fall to the slice: t counts half seconds, and of the
\* digits the model keeps the one of the seconds.
timestamp(t) == decimal(t \div 2)

\* `agent:main:repl:${timestamp}`
freshKey(t) == sessionKey \o <<":", timestamp(t)>>

\* the session keys a turn of the REPL may run on, and their files
ReplKeys ==
    {sessionKey, sessionPrefix("researcher") \o <<":", "repl">>}
        \cup {freshKey(t) : t \in 0..MaxClock}
ReplPaths == {getSessionPath(k) : k \in ReplKeys}

\* runAgentTurn, a turn that the model ends with its first response: the
\* history loaded, the user message and the response, each appended to
\* the file as it is pushed.
turnMessages(files, key) ==
    loadSession(files, key)
        \o <<userMessage, assistantMessage(<<textBlock>>)>>

turnFiles(files, key) ==
    appendMessage(appendMessage(files, key, userMessage),
                  key, assistantMessage(<<textBlock>>))

nTurns == Cardinality({<<p, k>> \in ReplPaths \X (1..(2 * MaxTurns)) :
                          k <= Len(sessions[p]) /\ k % 2 = 0})

replIdle ==
    UNCHANGED <<heap, valueVars, trainVars, callVars, issues, iter,
                response, blk, toolResults, apiCalls, approvals, event,
                answeredYes, ticks, tz, lastHeartbeatDate, userTurn,
                cronTurns, starts>>

AtPrompt == pc = "repl" /\ repl \in {"prompt", "reset"}

\* main: `if (!userInput) continue`
MainSkip(line) ==
    /\ AtPrompt /\ trim(line) = <<>>
    /\ UNCHANGED <<repl, replSessionKey, clock, messages, sessions>>
    /\ replIdle

\* main: /quit, /exit, /q
MainQuit(line) ==
    /\ AtPrompt
    /\ toLowerCase(trim(line)) \in
           {<<"/", "q", "u", "i", "t">>, <<"/", "e", "x", "i", "t">>,
            <<"/", "q">>}
    /\ repl' = "exited"
    /\ UNCHANGED <<replSessionKey, clock, messages, sessions>>
    /\ replIdle

\* main: /new
MainNew(line) ==
    /\ AtPrompt
    /\ toLowerCase(trim(line)) = <<"/", "n", "e", "w">>
    /\ replSessionKey' = freshKey(clock)
    /\ repl' = "reset"
    /\ UNCHANGED <<clock, messages, sessions>>
    /\ replIdle

\* main: any other line is a turn of the agent it is routed to. The turn
\* awaits the API: time goes by before main is back at its prompt.
MainTurn(line) ==
    /\ AtPrompt /\ nTurns < MaxTurns /\ clock < MaxClock
    /\ LET userInput == trim(line)
           agentId   == resolveAgent(userInput).agentId
           sk        == IF agentId # "main"
                        THEN sessionPrefix(agentId) \o <<":", "repl">>
                        ELSE replSessionKey
       IN  /\ userInput # <<>>
           /\ toLowerCase(userInput) \notin
                  {<<"/", "q", "u", "i", "t">>, <<"/", "e", "x", "i", "t">>,
                   <<"/", "q">>, <<"/", "n", "e", "w">>}
           /\ messages' = turnMessages(sessions, sk)
           /\ sessions' = turnFiles(sessions, sk)
    /\ repl' = "prompt" /\ clock' = clock + 1
    /\ UNCHANGED replSessionKey
    /\ replIdle

\* half a second goes by
ClockTick ==
    /\ pc = "repl" /\ repl # "exited" /\ clock < MaxClock
    /\ clock' = clock + 1
    /\ UNCHANGED <<repl, replSessionKey, messages, sessions>>
    /\ replIdle

InitRepl ==
    /\ pc = "repl" /\ repl = "prompt"
    /\ replSessionKey = sessionKey /\ clock = 0
    /\ sessions = [p \in ReplPaths |-> <<>>]
    /\ messages = <<>>
    /\ iter = 0 /\ response = <<>> /\ blk = 0 /\ toolResults = <<>>
    /\ apiCalls = <<>> /\ approvals = <<>> /\ event = <<>>
    /\ answeredYes = {}
    /\ ticks = <<>> /\ tz = 0 /\ lastHeartbeatDate = 0
    /\ userTurn = <<>> /\ cronTurns = <<>> /\ starts = <<>>
    /\ ret = <<>> /\ call = <<>> /\ issues = <<>>
    /\ heap = <<>> /\ nops = 0 /\ nback = 0
    /\ docs = <<>>
    /\ step = 0 /\ pos = 0 /\ pidx = 0 /\ smp = 0
    /\ tokens = <<>> /\ losses = <<>> /\ loss = 0
    /\ kvKeys = <<>> /\ kvValues = <<>>
    /\ mAdam = <<>> /\ vAdam = <<>>
    /\ tokenId = 0 /\ sample = <<>>
    /\ cur = <<>> /\ prev = <<>>
    /\ mark = 0
    /\ lrT = <<0, 1>> /\ corr1 = <<0, 1>> /\ corr2 = <<0, 1>>

NextRepl ==
    \/ \E line \in Lines : MainSkip(line)
    \/ \E line \in Lines : MainQuit(line)
    \/ \E line \in Lines : MainNew(line)
    \/ \E line \in Lines : MainTurn(line)
    \/ ClockTick

SpecRepl == InitRepl /\ [][NextRepl]_vars

\* The first turn since /new has just run.
TurnAfterNew == repl = "reset" /\ repl' = "prompt"

\* What that turn loaded: its history without the two messages it pushed.
Loaded(msgs) == SubSeq(msgs, 1, Len(msgs) - 2)

\* C31: after /new the next agent turn runs on a session with no prior
\* messages: nothing exchanged before /new is loaded into the history sent
\* to the model.
C31_Original_NextTurnStartsEmpty ==
    [][TurnAfterNew => Loaded(messages') = <<>>]_vars

\* ---------------------------------------------------------------------
\* microgpt: the order of a training step (C32)

\* `Math.min(BLOCK_SIZE, tokens.length - 1)`
PositionsOfStep == Min(BLOCK_SIZE, Len(tokens) - 1)

ParamsKept(S) == \A q \in S : heap'[q] = heap[q]

\* C32: in each training step all n positions are processed and their
\* losses collected, then backward() is called once, on the averaged loss,
\* then every parameter is updated by Adam, the grad of each being zeroed
\* right after its own update; no parameter's data changes from the first
\* forward pass of the step to the end of its backward().
C32_StepOrder ==
    /\ [][Forward => /\ pos < PositionsOfStep
                     /\ pos' = pos + 1 /\ Len(losses') = pos']_vars
    /\ [][pc = "forward" /\ pc' # "forward" =>
            /\ pos = PositionsOfStep /\ Len(losses) = PositionsOfStep
            /\ pc' = "backward"
            /\ heap'[loss'].op = "mean" /\ heap'[loss'].children = losses]_vars
    /\ [][pc' = "backward" => pc \in {"forward", "backward"}]_vars
    /\ [][pc = "backward" /\ pc' # "backward" =>
            /\ pc' = "adam" /\ pidx' = 0 /\ loss' = loss
            /\ heap' = backward(heap, loss)]_vars
    /\ [][AdamParam =>
            LET p == params[pidx + 1] IN
            /\ pidx' = pidx + 1
            /\ heap'[p].grad = 0
            /\ ParamsKept(Range(params) \ {p})]_vars
    /\ [][pc = "adam" /\ pc' # "adam" =>
            pidx = Len(params) /\ step' = step + 1 /\ pc' = "train"]_vars
    /\ [][(pc \in {"train", "forward", "backward"}) =>
            (\A p \in Range(params) : heap'[p].data = heap[p].data)]_vars

\* the Adam loop of the second step has updated every parameter, some of
\* them with a gradient
C32_Witness ==
    /\ pc = "adam" /\ step = 1 /\ pidx = Len(params)
    /\ Len(losses) = PositionsOfStep
    /\ \E i \in 1..Len(params) : mAdam[i] # 0

\* ---------------------------------------------------------------------
\* microgpt: the lengths of the vectors of gpt (C33)

\* C33: with N_EMBD divisible by N_HEAD, every call of linear inside gpt has
\* x.length equal to the length of each row of W, the concatenated head
\* outputs have length N_HEAD * HEAD_DIM = N_EMBD, both residual additions
\* combine vectors of length N_EMBD, and gpt returns vocabSize logits.
C33_LengthsAgree ==
    Returned("gpt") /\ call.nEmbd % call.nHead = 0 =>
        LET g == ret.value IN
        /\ \A li \in 1..Len(g.layers) :
              /\ \A k \in 1..Len(g.layers[li].linears) :
                    g.layers[li].linears[k].x = g.layers[li].linears[k].row
              /\ g.layers[li].xAttn = call.nHead * (call.nEmbd \div call.nHead)
              /\ g.layers[li].xAttn = call.nEmbd
              /\ \A k \in 1..Len(g.layers[li].residuals) :
                    /\ g.layers[li].residuals[k].a = call.nEmbd
                    /\ g.layers[li].residuals[k].xResidual = call.nEmbd
        /\ Len(g.layers) = N_LAYER
        /\ g.lm_head.x = g.lm_head.row
        /\ g.logits = call.vocabSize

\* gpt has returned for an embedding of four entries split over two heads
C33_Witness ==
    /\ Returned("gpt") /\ call.nEmbd = 4 /\ call.nHead = 2
    /\ ret.value.layers[1].xAttn = 4

\* ---------------------------------------------------------------------
\* microgpt: the exponents of softmax (C34)

\* a lower bound of Math.exp(x) for x <= 0: Math.exp(0) is 1, and the
\* exponential of a negative number is not negative (it may round to 0)
expAtLeast(x) == IF x = 0 THEN 1 ELSE 0

RECURSIVE sumAtLeast(_, _)
sumAtLeast(es, i) ==
    IF i > Len(es) THEN 0 ELSE expAtLeast(es[i].of) + sumAtLeast(es, i + 1)

\* C34: for every non-empty logit vector softmax subtracts the maximum
\* before exponentiating, so every exponent argument is <= 0 and at least
\* one is exactly 0; the sum of the exponentials is therefore at least 1, and
\* the normalising division never divides by 0.
C34_ExponentsNotPositive ==
    Returned("softmax") =>
        LET out == ret.value.plain IN
        /\ Len(out) = Len(call.logits) /\ Len(out) > 0
        /\ \A i \in 1..Len(out) :
              /\ out[i].num.fn = "exp"
              /\ out[i].num.of = call.logits[i] - maxOf(call.logits)
              /\ out[i].num.of <= 0
              /\ out[i].den.fn = "sum"
              /\ Len(out[i].den.of) = Len(out)
              /\ \A j \in 1..Len(out) : out[i].den.of[j] = out[j].num
              /\ sumAtLeast(out[i].den.of, 1) >= 1
        /\ \E i \in 1..Len(out) : out[i].num.of = 0

\* softmax has returned for a vector of MaxLogits logits that has a negative
\* and a positive entry and no zero
C34_Witness ==
    /\ Returned("softmax") /\ Len(call.logits) = MaxLogits
    /\ \E i, j \in 1..Len(call.logits) : call.logits[i] < 0 /\ call.logits[j] > 0
    /\ \A i \in 1..Len(call.logits) : call.logits[i] # 0

\* ---------------------------------------------------------------------
\* microgpt: the scale factor of rmsnorm (C35)

\* C35: for every non-empty input vector, the all-zero vector included, the
\* base raised to the power -0.5 in rmsnorm (the mean of the squares plus
\* 1e-5) is strictly positive, so the scale factor is finite; the all-zero
\* vector is mapped to the all-zero vector.
C35_ScaleFinite ==
    Returned("rmsnorm") =>
        LET r == ret.value
            x == call.x
        IN  /\ r.base[1] > 0 /\ r.base[2] > 0
            /\ fracEq(r.base, fracAdd(<<sumSquares(x, 1), Len(x)>>, <<1, 100000>>))
            /\ r.scale.kind = "finite"
            /\ Len(r.out) = Len(x)
            /\ (\A i \in 1..Len(x) : x[i] = 0) =>
                   \A i \in 1..Len(x) : r.out[i].kind = "zero"

\* rmsnorm has returned for the all-zero vector of MaxNorm entries
C35_Witness ==
    /\ Returned("rmsnorm") /\ Len(call.x) = MaxNorm
    /\ \A i \in 1..Len(call.x) : call.x[i] = 0
    /\ ret.value.base = <<1, 100000>>

\* ---------------------------------------------------------------------
\* microgpt: parameters the loss does not depend on (C39)

\* parameter i has had gradient 0 at every Adam update so far: both of its
\* moments are still 0 (moment gives 0 only from a moment of 0 and a
\* gradient of 0)
ZeroSoFar(i) == mAdam[i] = 0 /\ vAdam[i] = 0

\* this step is the Adam update of parameter i
Updating(i) == pc = "adam" /\ pidx + 1 = i /\ pidx' = i

\* the rows of wpe for the positions this step did not reach and the rows of
\* wte for the tokens this step did not feed to the model
Unreached ==
    UNION ({Range(stateDict("wpe")[p + 1]) : p \in nPos..(BLOCK_SIZE - 1)}
           \cup {Range(stateDict("wte")[t + 1]) :
                    t \in (0..(vocabSize - 1)) \ {tokens[k] : k \in 1..nPos}})

\* C39: a parameter whose gradient has been 0 at every training step so far
\* (a position-embedding row for a position no document has reached, the
\* token-embedding row of a token never fed to the model) keeps its initial
\* data through every Adam update, and its m and v entries stay 0.
C39_ZeroGradientKeepsData ==
    /\ [](\A i \in 1..Len(params) :
             ZeroSoFar(i) => heap[params[i]].data = initialHeap[params[i]].data)
    /\ [][\A i \in 1..Len(params) :
             (ZeroSoFar(i) /\ (Updating(i) => heap[params[i]].grad = 0)) =>
                 (/\ heap'[params[i]].data = heap[params[i]].data
                  /\ mAdam'[i] = 0 /\ vAdam'[i] = 0)]_vars
    /\ []((pc = "adam" /\ pidx = 0) => \A q \in Unreached : heap[q].grad = 0)
    /\ [][(\E i \in 1..Len(params) : Updating(i)) =>
             (corr1'[1] # 0 /\ corr2'[1] # 0)]_vars

\* after the second step's Adam loop the last row of wpe still has its
\* initial data and moments 0, and another parameter has been changed
C39_Witness ==
    /\ pc = "adam" /\ step = 1 /\ pidx = Len(params)
    /\ \A j \in 1..N_EMBD :
          LET q == stateDict("wpe")[BLOCK_SIZE][j]
          IN  ZeroSoFar(q) /\ heap[q].data = initialHeap[q].data
    /\ \E i \in 1..Len(params) : mAdam[i] # 0 /\ heap[params[i]].data # 0

\* ---------------------------------------------------------------------
\* microgpt: the flattened parameter list (C40)

\* the positions of the list f that hold the Value q
PositionsOf(f, q) == {idx \in 1..Len(f) : f[idx] = q}

\* the list f holds every entry of every matrix at exactly one position, the
\* matrices have the shapes they were created with, and no Value is at two
\* positions of f
EachEntryOnce(f) ==
    /\ \A k \in 1..Len(MatNames) :
          LET mat == matrix(k) IN
          /\ Len(mat) = Shape(k).nout
          /\ \A i \in 1..Len(mat) :
                /\ Len(mat[i]) = Shape(k).nin
                /\ \A j \in 1..Len(mat[i]) :
                      Cardinality(PositionsOf(f, mat[i][j])) = 1
    /\ \A a, b \in 1..Len(f) : f[a] = f[b] => a = b

\* C40: the flattened parameter list contains every entry of every matrix of
\* the parameter store exactly once and no Value occurs at two positions, so
\* each parameter is updated exactly once per training step and its grad is
\* zeroed only after its own update; the list and the matrix shapes never
\* change after initialisation.
C40_EachParameterOnce ==
    /\ [](/\ params = flatMapFrom(1)
          /\ EachEntryOnce(params)
          /\ Len(mAdam) = Len(params) /\ Len(vAdam) = Len(params)
          /\ \A i \in 1..Len(params) :
                /\ params[i] \in DOMAIN heap
                /\ heap[params[i]].children = <<>>)
    /\ [][(pc = "adam" /\ pidx' # pidx) =>
             (/\ pidx' = pidx + 1 /\ pidx' <= Len(params)
              /\ heap'[params[pidx']].grad = 0
              /\ \A i \in 1..Len(params) :
                    i # pidx' => (/\ heap'[params[i]] = heap[params[i]]
                                  /\ mAdam'[i] = mAdam[i]
                                  /\ vAdam'[i] = vAdam[i]))]_vars
    /\ [][(pc = "adam" /\ pc' # "adam") => pidx = Len(params)]_vars
    /\ [][(pc # "adam" /\ pc' = "adam") => pidx' = 0]_vars

\* the Adam loop of a step has reached the last parameter, an entry of the
\* 4N-column matrix mlp_fc2, with earlier parameters updated and their grads 0
C40_Witness ==
    /\ pc = "adam" /\ pidx = Len(params)
    /\ params[pidx] = layerMat(1, ".mlp_fc2")[N_EMBD][4 * N_EMBD]
    /\ \E i \in 1..Len(params) : mAdam[i] # 0
    /\ \A i \in 1..Len(params) : heap[params[i]].grad = 0

====
